---- MODULE Spec2Model ----
(***************************************************************************)
(* TrafficIQ: the traffic derivation pipeline (TrafficService), the route  *)
(* comparison service (RouteService), the Google Maps SDK loader           *)
(* (GoogleMapsService) and the persistence client (SupabaseService).       *)
(*                                                                         *)
(* Time is counted in minutes.  Durations of legs are counted in seconds,  *)
(* as the provider reports them.                                           *)
(***************************************************************************)
EXTENDS Integers, Sequences, FiniteSets, TLC

(***************************************************************************)
(* Bounds of the model.                                                    *)
(***************************************************************************)
MaxTime == 5
MaxCalls == 2
MaxExternalRows == 1
MaxRoutes == 3
MaxSevDelay == 14
MaxSevBase == 21
MaxLoadCalls == 3
MaxClock == 30
MaxGeoRequests == 3
MaxGeoHours == 25
MaxPredConditions == 3
MaxFetches == 3
MaxHookMinutes == 10
MaxLocationChanges == 1

(***************************************************************************)
(* Program constants.                                                      *)
(***************************************************************************)
FreshMinutes == 5
CacheHorizonMinutes == 120
CacheRowLimit == 50
MaxCandidates == 5
EnoughConditions == 3
MaxUniquePlaces == 8
SearchQueries == 6
RefreshMinutes == 5
ChartRefreshMinutes == 10
EnoughPlaces == 10
RealConfidence == 95
LoadTimeoutSeconds == 15
LocationExpiryHours == 24

None == "none"

VARIABLES
    now,          \* Date.now(), in minutes
    table,        \* the traffic_conditions table, in insertion order
    isLoaded,     \* GoogleMapsService.isLoaded
    script,       \* the maps script tag: "none", "pending", "loaded", "error"
    pc,           \* position of the getCurrentTrafficConditions call
    callNo,       \* number of calls started
    result,       \* the list the call returned
    source,       \* where the returned list came from
    race,         \* Promise.race of fetchRealTrafficData
    fpc,          \* position of the fetchPromise closure
    places,       \* nearbyPlaces of the running fetch
    idx,          \* loop index i of the running fetch
    conds,        \* conditions collected by the running fetch
    requests,     \* directions requests issued by the running fetch
    inflight,     \* directions requests issued and not settled
    saveQueue,    \* conditions saveConditionsToCache has still to insert
    lastLive,     \* the last live result: its size, when, and how its save ended
    expectCache,  \* at call start: the size of the live result a cache should serve
    phaseResult,  \* what fetchRealTrafficData returned to the call
    discarded,    \* how many conditions a fetch produced after its race was lost
    cached,       \* the conditions the call read from the cache
    readAt,       \* Date.now() when the cache was filtered
    phases,       \* the phases this call started: "fetch", "sim"
    handed,       \* every condition handed to saveConditionsToCache
    lastRequest,  \* the options and the DirectionsRequest of the last request
    sevDelay, sevBase, sevTraffic, sevRoute,   \* severity classification
    rpc,          \* position of the calculateRoutes call
    request,      \* the RouteRequest
    provider,     \* what the provider answered to the directions request
    routes,       \* RouteResult[] of the batch
    response,     \* the RouteResponse returned
    saved,        \* the saved_routes rows written by this call
    savedRoutes,  \* what getSavedRoutes returned after this call
    providerLog,  \* provider calls of this invocation, and how the search ended
    clock,        \* seconds since the page was opened
    apiKey,       \* whether GoogleMapsService.apiKey is configured
    google,       \* whether window.google.maps exists
    sdkIsLoaded,  \* GoogleMapsService.isLoaded, seen by concurrent loads
    tags,         \* number of maps script tags put into the document
    tagState,     \* the script tag: "none", "pending", "loaded", "error"
    loads,        \* the loadGoogleMaps calls made, in order
    geoNow,       \* Date.now() of the geolocation hook, in hours
    storage,      \* localStorage entry under 'traffick-user-location'
    mounted,      \* whether the useGeolocation hook is mounted
    location,     \* state.location of the hook
    error,        \* state.error of the hook
    isRequestingLocation,
    effectPending, \* the effect's dependencies changed in the last render
    geoRequest,   \* the browser's getCurrentPosition request: "none", "pending"
    issued,       \* getCurrentPosition requests issued so far
    sinceFailure, \* a request failed and refreshLocation was not invoked since
    autoRequests, \* requests issued after a failure without refreshLocation
    lastLoad,     \* the last loadSavedLocation call and what it did
    lastRefresh,  \* the last refreshLocation: what was held, how it ended
    simHour,      \* new Date().getHours() seen by the simulation
    simPc,        \* position of generateLocationAwareSimulation
    simCount,     \* numConditions
    simConditions, \* conditions pushed so far
    simResult,    \* the list the simulation returned
    predHour,     \* new Date().getHours() seen by the predictions
    predConditions, \* severities of the current conditions
    predictions,  \* the predictions pushed so far
    aiPc,         \* position of analyzeTrafficConditions
    aiReply,      \* what the completion endpoint answered
    aiInsight,    \* the insight returned
    nearPc,       \* position of findNearbyPlaces
    nearRadius,   \* the radius it was called with
    nearQuery,    \* index of the next search query
    nearAll,      \* allPlaces of the running call
    searched,     \* how each query issued so far ended
    nearbyResult, \* the uniquePlaces it returned
    component,    \* "useTrafficData" or "PredictionChart"
    hookNow,      \* minutes since the component mounted
    hookPhase,    \* "initial", "mounted" or "torn"
    userLocation, \* the userLocation of the last render
    interval,     \* the interval id held by the last effect
    timers,       \* the interval timers the browser still runs
    cleared,      \* the interval ids clearInterval was called with
    fetches,      \* the fetches awaiting their data
    started,      \* how many fetches were started
    shown,        \* trafficData / predictions as last set
    isLoading,    \* isLoading
    isAutoRefreshing,\* isAutoRefreshing
    hookError,    \* error
    lateCalls     \* calls made by a timer after its cleanup

trafficVars == <<now, table, isLoaded, script, pc, callNo, result, source, race,
                 fpc, places, idx, conds, requests, inflight, saveQueue,
                 lastLive, expectCache, phaseResult, discarded, cached, readAt,
                 phases, handed, lastRequest>>
sevVars == <<sevDelay, sevBase, sevTraffic, sevRoute>>
routeVars == <<rpc, request, provider, routes, response, saved, providerLog,
               savedRoutes>>
loaderVars == <<clock, apiKey, google, sdkIsLoaded, tags, tagState, loads>>
geoVars == <<geoNow, storage, mounted, location, error, isRequestingLocation,
             effectPending, geoRequest, issued, sinceFailure, autoRequests,
             lastLoad, lastRefresh>>
simVars == <<simHour, simPc, simCount, simConditions, simResult>>
predVars == <<predHour, predConditions, predictions>>
aiVars == <<aiPc, aiReply, aiInsight>>
placeVars == <<nearPc, nearRadius, nearQuery, nearAll, searched,
               nearbyResult>>
refreshVars == <<component, hookNow, hookPhase, userLocation, interval, timers, cleared, fetches, started, shown, isLoading, isAutoRefreshing, hookError, lateCalls>>
moreVars == <<loaderVars, geoVars, simVars, predVars, aiVars, placeVars, refreshVars>>
vars == <<trafficVars, sevVars, routeVars, moreVars>>

\* what the steps of one service leave alone
notTraffic == <<sevVars, routeVars, moreVars>>
notSeverity == <<trafficVars, routeVars, moreVars>>
notRoutes == <<trafficVars, sevVars, moreVars>>
notLoader == <<trafficVars, sevVars, routeVars, geoVars, simVars, predVars,
               aiVars, placeVars, refreshVars>>
notGeo == <<trafficVars, sevVars, routeVars, loaderVars, simVars, predVars,
            aiVars, placeVars, refreshVars>>
notSim == <<trafficVars, sevVars, routeVars, loaderVars, geoVars, predVars,
            aiVars, placeVars, refreshVars>>
notPred == <<trafficVars, sevVars, routeVars, loaderVars, geoVars, simVars,
             aiVars, placeVars, refreshVars>>
notAi == <<trafficVars, sevVars, routeVars, loaderVars, geoVars, simVars,
           predVars, placeVars, refreshVars>>
notPlaces == <<trafficVars, sevVars, routeVars, loaderVars, geoVars, simVars,
               predVars, aiVars, refreshVars>>
notRefresh == <<trafficVars, sevVars, routeVars, loaderVars, geoVars, simVars, predVars, aiVars, placeVars>>

(***************************************************************************)
(* Severity classification.  delay / base * 100 >= k is compared without   *)
(* division; a zero base gives Infinity (delay > 0) or NaN (delay = 0).    *)
(***************************************************************************)
SevereFloorAsHigh(delay, normalDuration) ==
    IF normalDuration = 0 THEN (IF delay > 0 THEN "severe" ELSE "low")
    ELSE IF delay * 100 > 50 * normalDuration THEN "severe"
    ELSE IF delay * 100 >= 25 * normalDuration THEN "high"
    ELSE IF delay * 100 >= 10 * normalDuration THEN "moderate"
    ELSE "low"

calculateSeverityFromDelay(delay, normalDuration) ==
    IF normalDuration = 0 THEN (IF delay > 0 THEN "severe" ELSE "low")
    ELSE IF delay * 100 >= 50 * normalDuration THEN "severe"
    ELSE IF delay * 100 >= 25 * normalDuration THEN "high"
    ELSE IF delay * 100 >= 10 * normalDuration THEN "moderate"
    ELSE "low"

ModerateBandAt15(trafficDelay, baseDuration) ==
    IF baseDuration = 0 THEN (IF trafficDelay > 0 THEN "severe" ELSE "low")
    ELSE IF trafficDelay * 100 >= 50 * baseDuration THEN "severe"
    ELSE IF trafficDelay * 100 >= 25 * baseDuration THEN "high"
    ELSE IF trafficDelay * 100 >= 15 * baseDuration THEN "moderate"
    ELSE "low"

calculateTrafficLevel(trafficDelay, baseDuration) ==
    IF baseDuration = 0 THEN (IF trafficDelay > 0 THEN "severe" ELSE "low")
    ELSE IF trafficDelay * 100 >= 50 * baseDuration THEN "severe"
    ELSE IF trafficDelay * 100 >= 25 * baseDuration THEN "high"
    ELSE IF trafficDelay * 100 >= 10 * baseDuration THEN "moderate"
    ELSE "low"

Max(a, b) == IF a >= b THEN a ELSE b
Min(a, b) == IF a <= b THEN a ELSE b

\* Math.round of n / d for n >= 0, d > 0 (halves go up)
RoundDiv(n, d) == (2 * n + d) \div (2 * d)

(***************************************************************************)
(* Identifiers.  An identifier is its prefix, the Date.now() it was made   *)
(* at and the index i.  The table assigns its own identifier to an         *)
(* inserted row.                                                           *)
(***************************************************************************)
RealPrefix == "real-traffic-"
SimPrefix == "simulation-"
UuidPrefix == "uuid"

StartsWith(id, prefix) == id.prefix = prefix

\* id uuid PRIMARY KEY DEFAULT gen_random_uuid()
GenRandomUuid(tbl) == [prefix |-> UuidPrefix, t |-> 0, i |-> Len(tbl) + 1]

(***************************************************************************)
(* SupabaseService: traffic_conditions.                                    *)
(***************************************************************************)
InsertedRow(tbl, condition) ==
    [id |-> GenRandomUuid(tbl), severity |-> condition.severity,
     confidence |-> condition.confidence, timestamp |-> condition.timestamp,
     near |-> TRUE]

\* .order('timestamp', { ascending: false }): rows of equal timestamp keep
\* their insertion order
RECURSIVE InsertDesc(_, _)
InsertDesc(sorted, row) ==
    IF sorted = <<>> THEN <<row>>
    ELSE IF Head(sorted).timestamp >= row.timestamp
         THEN <<Head(sorted)>> \o InsertDesc(Tail(sorted), row)
         ELSE <<row>> \o sorted

RECURSIVE OrderByTimestampDesc(_)
OrderByTimestampDesc(rows) ==
    IF rows = <<>> THEN <<>>
    ELSE InsertDesc(OrderByTimestampDesc(SubSeq(rows, 1, Len(rows) - 1)),
                    rows[Len(rows)])

Limit(rows, k) == SubSeq(rows, 1, Min(Len(rows), k))

\* getTrafficConditions(location, radius) at time t
getTrafficConditions(tbl, t) ==
    LET lastTwoHours == SelectSeq(tbl, LAMBDA r : r.timestamp >= t - CacheHorizonMinutes)
        data == Limit(OrderByTimestampDesc(lastTwoHours), CacheRowLimit)
    IN  SelectSeq(data, LAMBDA r : r.near)

(***************************************************************************)
(* TrafficService.getCurrentTrafficConditions: the cache filter.           *)
(***************************************************************************)
ToCondition(record) ==
    [id |-> record.id, severity |-> record.severity,
     confidence |-> record.confidence, timestamp |-> record.timestamp]

MapSeq(s, F(_)) == [k \in 1..Len(s) |-> F(s[k])]

IsRecentOnly(condition, t) ==
    t - condition.timestamp < FreshMinutes

IsRecentReal(condition, t) ==
    LET isRecent == t - condition.timestamp < FreshMinutes
        isReal == StartsWith(condition.id, RealPrefix)
    IN  isRecent /\ isReal

RecentRealConditions(conditions, t) ==
    SelectSeq(conditions, LAMBDA c : IsRecentReal(c, t))

(***************************************************************************)
(* TrafficService.findNearbyPlaces.  A category search either fails or     *)
(* answers a list of places; a place is its place_id and whether it lies   *)
(* within the radius.                                                      *)
(***************************************************************************)
RECURSIVE CollectPlaces(_, _)
CollectPlaces(searches, allPlaces) ==
    IF searches = <<>> THEN allPlaces
    ELSE IF ~Head(searches).ok THEN CollectPlaces(Tail(searches), allPlaces)
    ELSE LET nearbyPlaces == SelectSeq(Head(searches).places, LAMBDA p : p.within)
             pushed == allPlaces \o nearbyPlaces
         IN  IF Len(pushed) >= EnoughPlaces THEN pushed
             ELSE CollectPlaces(Tail(searches), pushed)

\* filter((place, index, self) => index === self.findIndex(same place_id))
RECURSIVE UniquePlaces(_, _)
UniquePlaces(all, k) ==
    IF k > Len(all) THEN <<>>
    ELSE IF \E j \in 1..(k - 1) : all[j].place_id = all[k].place_id
         THEN UniquePlaces(all, k + 1)
         ELSE <<all[k]>> \o UniquePlaces(all, k + 1)

findNearbyPlaces(searches) ==
    Limit(UniquePlaces(CollectPlaces(searches, <<>>), 1), MaxUniquePlaces)

Place(n) == [place_id |-> n, within |-> TRUE]
FarPlace(n) == [place_id |-> n, within |-> FALSE]
Found(ps) == [ok |-> TRUE, places |-> ps]
SearchFailed == [ok |-> FALSE, places |-> <<>>]

\* The answers of the six category searches the model draws from.
SearchScenarios ==
    { [k \in 1..6 |-> SearchFailed],
      <<Found(<<Place(1), FarPlace(2)>>), SearchFailed, Found(<<>>), Found(<<Place(1)>>),
        Found(<<>>), Found(<<>>)>>,
      <<Found(<<Place(1), Place(2)>>), Found(<<Place(2), Place(3)>>), SearchFailed,
        Found(<<Place(4), FarPlace(5)>>), Found(<<>>), Found(<<>>)>>,
      <<Found(<<Place(1), Place(2), Place(3), Place(4), Place(5)>>),
        Found(<<Place(6), Place(7), Place(8), Place(9), Place(10)>>),
        Found(<<Place(11)>>), Found(<<>>), Found(<<>>), Found(<<>>)>> }

(***************************************************************************)
(* Answers to one directions request of the live fetch.                    *)
(***************************************************************************)
Directions(kind, duration, traffic) ==
    [kind |-> kind, duration |-> duration, traffic |-> traffic]

DirectionsOutcomes ==
    { Directions("reject", 0, 0),       \* calculateDirections rejected
      Directions("noroutes", 0, 0),     \* OK without a route
      Directions("notraffic", 1200, 0), \* no duration_in_traffic
      Directions("traffic", 1200, 1800) }

\* lines 216-248: the condition of the route to candidate i
RealCondition(d, i, t) ==
    LET delay == Max(0, d.traffic - d.duration)
        severity == calculateSeverityFromDelay(delay, d.duration)
    IN  [id |-> [prefix |-> RealPrefix, t |-> t, i |-> i],
         severity |-> severity, confidence |-> RealConfidence, timestamp |-> t]

\* for (i < Math.min(nearbyPlaces.length, 5)) with the early break
LoopWithoutBreak(i, nPlaces, nConditions) ==
    i < Min(nPlaces, MaxCandidates)

LoopContinues(i, nPlaces, nConditions) ==
    i < Min(nPlaces, MaxCandidates) /\ ~(nConditions >= EnoughConditions)

Range(s) == {s[k] : k \in 1..Len(s)}

(***************************************************************************)
(* TrafficService.generateLocationAwareSimulation: the severities of an    *)
(* hour of day.                                                            *)
(***************************************************************************)
SimSeverities(currentHour) ==
    IF currentHour >= 7 /\ currentHour <= 9 THEN {"high", "moderate"}
    ELSE IF currentHour >= 17 /\ currentHour <= 19 THEN {"high", "severe"}
    ELSE IF currentHour >= 22 \/ currentHour <= 5 THEN {"low"}
    ELSE {"moderate", "low"}

SimConfidence == 70
SimHours == {23}

SimCondition(severity, i, t) ==
    [id |-> [prefix |-> SimPrefix, t |-> t, i |-> i],
     severity |-> severity, confidence |-> SimConfidence, timestamp |-> t]

(***************************************************************************)
(* GoogleMapsService.calculateDirections: the request it sends.            *)
(***************************************************************************)
\* an option of calculateDirections: passed or not, and its value
Passed(value) == [given |-> TRUE, value |-> value]
NotPassed == [given |-> FALSE, value |-> FALSE]

\* x || d for a boolean option x
OrElse(x, d) == IF x.given /\ x.value THEN x.value ELSE d

\* the google.maps.DirectionsRequest calculateDirections builds
DirectionsRequest(options) ==
    [avoidHighways |-> OrElse(options.avoidHighways, FALSE),
     avoidTolls |-> OrElse(options.avoidTolls, FALSE),
     provideRouteAlternatives |-> OrElse(options.provideRouteAlternatives, TRUE)]

\* the options fetchRealTrafficData passes
FetchOptions ==
    [avoidHighways |-> NotPassed, avoidTolls |-> NotPassed,
     provideRouteAlternatives |-> Passed(FALSE)]

\* no request issued yet
NoRequest ==
    [sent |-> FALSE,
     options |-> [avoidHighways |-> NotPassed, avoidTolls |-> NotPassed,
                  provideRouteAlternatives |-> NotPassed],
     request |-> [avoidHighways |-> FALSE, avoidTolls |-> FALSE,
                  provideRouteAlternatives |-> FALSE]]

(***************************************************************************)
(* GoogleMapsService.loadGoogleMaps, as getCurrentTrafficConditions awaits *)
(* it.  window.google.maps is there exactly when the script has loaded.    *)
(***************************************************************************)
GoogleAvailable == script = "loaded"

\* return of the list `list` to the caller
Return(list, src) ==
    /\ pc' = "idle"
    /\ result' = list
    /\ source' = src

\* a rejection reaching the caller
Raise ==
    /\ pc' = "threw"
    /\ UNCHANGED <<result, source>>

\* catch (error) { return [] } of getCurrentTrafficConditions
OuterCatch == Return(<<>>, "error")

\* lines 53-57, once loadGoogleMaps has resolved
AfterLoad ==
    IF ~GoogleAvailable' THEN Return(<<>>, "error")
    ELSE pc' = "cache" /\ UNCHANGED <<result, source>>

FreshCache ==
    IF lastLive.save = "ok" /\ now - lastLive.at < FreshMinutes
    THEN lastLive.size ELSE 0

Call ==
    /\ pc = "idle"
    /\ callNo < MaxCalls
    /\ fpc = "none"
    /\ saveQueue = <<>>
    /\ handed' = {}
    /\ discarded' = 0
    /\ callNo' = callNo + 1
    /\ expectCache' = FreshCache
    /\ phases' = {}
    /\ cached' = <<>>
    /\ readAt' = now
    /\ race' = "none"
    /\ phaseResult' = <<>>
    /\ requests' = 0
    /\ lastRequest' = NoRequest
    /\ places' = <<>>
    /\ IF isLoaded /\ GoogleAvailable
       THEN UNCHANGED <<isLoaded, script>> /\ pc' = "cache"
       ELSE IF GoogleAvailable
       THEN isLoaded' = TRUE /\ script' = script /\ pc' = "cache"
       ELSE IF script # "none"
       THEN UNCHANGED <<isLoaded, script>> /\ pc' = "sdk_poll"
       ELSE script' = "pending" /\ isLoaded' = isLoaded /\ pc' = "sdk_wait"
    /\ result' = <<>>
    /\ source' = "none"
    /\ UNCHANGED <<now, table, fpc, idx, conds, inflight, saveQueue, lastLive>>
    /\ UNCHANGED notTraffic

\* window.initGoogleMaps runs
ScriptLoads ==
    /\ script = "pending"
    /\ script' = "loaded"
    /\ isLoaded' = TRUE
    /\ IF pc = "sdk_wait" THEN AfterLoad ELSE UNCHANGED <<pc, result, source>>
    /\ UNCHANGED <<now, table, callNo, race, fpc, places, idx, conds, requests,
                   inflight, saveQueue, lastLive, expectCache, phaseResult,
                   discarded, cached, readAt, phases, handed>>
    /\ UNCHANGED <<lastRequest, notTraffic>>

\* script.onerror
ScriptError ==
    /\ script = "pending"
    /\ script' = "error"
    /\ IF pc = "sdk_wait" THEN OuterCatch ELSE UNCHANGED <<pc, result, source>>
    /\ UNCHANGED <<now, table, isLoaded, callNo, race, fpc, places, idx, conds,
                   requests, inflight, saveQueue, lastLive, expectCache,
                   phaseResult, discarded, cached, readAt, phases, handed>>
    /\ UNCHANGED <<lastRequest, notTraffic>>

\* the 15 s timer of the call that injected the script
LoadTimeout ==
    /\ pc = "sdk_wait"
    /\ OuterCatch
    /\ UNCHANGED <<now, table, isLoaded, script, callNo, race, fpc, places, idx,
                   conds, requests, inflight, saveQueue, lastLive, expectCache,
                   phaseResult, discarded, cached, readAt, phases, handed>>
    /\ UNCHANGED <<lastRequest, notTraffic>>

\* waitForGoogle of a call that found the script tag in the document
WaitForGoogle ==
    /\ pc = "sdk_poll"
    /\ GoogleAvailable
    /\ isLoaded' = TRUE
    /\ script' = script
    /\ AfterLoad
    /\ UNCHANGED <<now, table, callNo, race, fpc, places, idx, conds, requests,
                   inflight, saveQueue, lastLive, expectCache, phaseResult,
                   discarded, cached, readAt, phases, handed>>
    /\ UNCHANGED <<lastRequest, notTraffic>>

(***************************************************************************)
(* getCurrentTrafficConditions after the SDK check.                        *)
(***************************************************************************)
\* lines 101-118, with the list `cs` fetchRealTrafficData returned
ReturnEmptyOnNoData(cs) ==
    /\ Return(cs, IF Len(cs) > 0 THEN "live" ELSE "error")
    /\ saveQueue' = saveQueue \o cs
    /\ handed' = handed \cup Range(cs)
    /\ lastLive' = IF Len(cs) > 0 THEN [size |-> Len(cs), at |-> now, save |-> "pending"]
                   ELSE lastLive
    /\ phases' = phases

AfterFetch(cs) ==
    IF Len(cs) > 0
    THEN /\ saveQueue' = saveQueue \o cs
         /\ handed' = handed \cup Range(cs)
         /\ lastLive' = [size |-> Len(cs), at |-> now, save |-> "pending"]
         /\ Return(cs, "live")
         /\ phases' = phases
    ELSE /\ pc' = "sim"
         /\ phases' = phases \cup {"sim"}
         /\ UNCHANGED <<saveQueue, handed, lastLive, result, source>>

\* lines 59-99 and the start of fetchRealTrafficData
CacheRead(readOk) ==
    /\ pc = "cache"
    /\ LET supabaseConditions == IF readOk THEN getTrafficConditions(table, now) ELSE <<>>
           conditions == MapSeq(supabaseConditions, ToCondition)
           recentRealConditions == RecentRealConditions(conditions, now)
       IN  /\ cached' = conditions
           /\ readAt' = now
           /\ IF Len(conditions) > 0 /\ Len(recentRealConditions) > 0
              THEN /\ Return(recentRealConditions, "cache")
                   /\ UNCHANGED <<race, fpc, places, idx, conds, requests, phases>>
              ELSE /\ pc' = "fetch"
                   /\ phases' = phases \cup {"fetch"}
                   /\ race' = "pending"
                   /\ fpc' = "geocode"
                   /\ places' = <<>>
                   /\ idx' = 0
                   /\ conds' = <<>>
                   /\ requests' = 0
                   /\ UNCHANGED <<result, source>>
    /\ UNCHANGED <<now, table, isLoaded, script, callNo, inflight, saveQueue,
                   lastLive, expectCache, phaseResult, discarded, handed>>
    /\ UNCHANGED <<lastRequest, notTraffic>>

(***************************************************************************)
(* fetchRealTrafficData: the fetchPromise closure and its race with the    *)
(* 30 s timer.                                                             *)
(***************************************************************************)
\* the closure returns `cs`
FetchSettles(cs) ==
    /\ fpc' = "none"
    /\ places' = places
    /\ idx' = 0
    /\ conds' = <<>>
    /\ IF race = "pending"
       THEN /\ race' = "fetchWon"
            /\ phaseResult' = cs
            /\ discarded' = discarded
            /\ AfterFetch(cs)
       ELSE /\ discarded' = discarded + Len(cs)
            /\ UNCHANGED <<race, phaseResult, pc, result, source, saveQueue,
                           handed, lastLive, phases>>

\* the timer fires before the closure has returned: catch { return [] }
TimerIgnored ==
    /\ race' = "timerWon"
    /\ UNCHANGED <<phaseResult, pc, phases, saveQueue, handed, lastLive, result, source>>

OnTimeout ==
    /\ race' = "timerWon"
    /\ phaseResult' = <<>>
    /\ AfterFetch(<<>>)

FetchTimeout ==
    /\ race = "pending"
    /\ OnTimeout
    /\ UNCHANGED <<now, table, isLoaded, script, callNo, fpc, places, idx, conds,
                   requests, inflight, expectCache, discarded, cached, readAt>>
    /\ UNCHANGED <<lastRequest, notTraffic>>

\* getReverseGeocodedAddress(center): the address is used for a log line
ReverseGeocodeCenter(geocodeOk) ==
    /\ fpc = "geocode"
    /\ fpc' = "places"
    /\ UNCHANGED <<now, table, isLoaded, script, pc, callNo, result, source, race,
                   places, idx, conds, requests, inflight, saveQueue, lastLive,
                   expectCache, phaseResult, discarded, cached, readAt, phases,
                   handed>>
    /\ UNCHANGED <<lastRequest, notTraffic>>

FindPlaces(searches) ==
    /\ fpc = "places"
    /\ LET nearbyPlaces == findNearbyPlaces(searches)
       IN  IF Len(nearbyPlaces) = 0
           THEN FetchSettles(<<>>)
           ELSE /\ fpc' = "loop"
                /\ places' = nearbyPlaces
                /\ UNCHANGED <<race, phaseResult, discarded, pc, result, source,
                               saveQueue, handed, lastLive, phases, idx, conds>>
    /\ UNCHANGED <<now, table, isLoaded, script, callNo, requests,
                   inflight, expectCache, cached, readAt>>
    /\ UNCHANGED <<lastRequest, notTraffic>>

\* the head of the for loop: issue the next request, or leave the loop
LoopHead ==
    /\ fpc = "loop"
    /\ IF LoopContinues(idx, Len(places), Len(conds))
       THEN /\ fpc' = "inflight"
            /\ requests' = requests + 1
            /\ lastRequest' = [sent |-> TRUE, options |-> FetchOptions,
                                request |-> DirectionsRequest(FetchOptions)]
            /\ inflight' = inflight + 1
            /\ UNCHANGED <<race, phaseResult, discarded, pc, result, source,
                           saveQueue, handed, lastLive, phases, places, idx, conds>>
       ELSE /\ FetchSettles(conds)
            /\ UNCHANGED <<requests, inflight, lastRequest>>
    /\ UNCHANGED <<now, table, isLoaded, script, callNo, expectCache, cached, readAt>>
    /\ UNCHANGED notTraffic

\* the awaited calculateDirections settles
DirectionsSettles(d) ==
    /\ fpc = "inflight"
    /\ inflight' = inflight - 1
    /\ conds' = IF d.kind = "traffic"
                THEN Append(conds, RealCondition(d, idx, now))
                ELSE conds
    /\ idx' = idx + 1
    /\ fpc' = "loop"
    /\ UNCHANGED <<now, table, isLoaded, script, pc, callNo, result, source, race,
                   places, requests, saveQueue, lastLive, expectCache,
                   phaseResult, discarded, cached, readAt, phases, handed>>
    /\ UNCHANGED <<lastRequest, notTraffic>>

\* generateLocationAwareSimulation: numConditions conditions of the hour, or
\* [] from its catch
SimulateAndCache(currentHour, numConditions, severities, failed) ==
    /\ pc = "sim"
    /\ LET list == IF failed THEN <<>>
                   ELSE [i \in 1..numConditions |->
                            SimCondition(severities[i], i - 1, now)]
       IN  /\ Return(list, "sim")
           /\ saveQueue' = saveQueue \o list
           /\ handed' = handed \cup Range(list)
    /\ UNCHANGED <<now, table, isLoaded, script, callNo, race, fpc, places, idx,
                   conds, requests, inflight, lastLive, expectCache,
                   phaseResult, discarded, cached, readAt, phases>>
    /\ UNCHANGED <<lastRequest, notTraffic>>
Simulate(currentHour, numConditions, severities, failed) ==
    /\ pc = "sim"
    /\ Return(IF failed THEN <<>>
              ELSE [i \in 1..numConditions |->
                       SimCondition(severities[i], i - 1, now)],
              "sim")
    /\ UNCHANGED <<now, table, isLoaded, script, callNo, race, fpc, places, idx,
                   conds, requests, inflight, saveQueue, lastLive, expectCache,
                   phaseResult, discarded, cached, readAt, phases, handed>>
    /\ UNCHANGED <<lastRequest, notTraffic>>

(***************************************************************************)
(* saveConditionsToCache, detached from the call: one insert at a time; a  *)
(* failed insert is logged and the next condition is tried.                *)
(***************************************************************************)
SaveNext(insertOk) ==
    /\ saveQueue # <<>>
    /\ table' = IF insertOk THEN Append(table, InsertedRow(table, Head(saveQueue)))
                ELSE table
    /\ saveQueue' = Tail(saveQueue)
    /\ lastLive' = LET st == IF insertOk THEN lastLive.save ELSE "failed"
                   IN  [lastLive EXCEPT !.save =
                           IF Tail(saveQueue) = <<>> /\ st = "pending" THEN "ok" ELSE st]
    /\ UNCHANGED <<now, isLoaded, script, pc, callNo, result, source, race, fpc,
                   places, idx, conds, requests, inflight, expectCache,
                   phaseResult, discarded, cached, readAt, phases, handed>>
    /\ UNCHANGED <<lastRequest, notTraffic>>

(***************************************************************************)
(* The environment: the clock, and other clients of the public table.      *)
(***************************************************************************)
\* A call and the tasks it leaves behind last less than a minute: the clock
\* moves between them, and by then the caller has taken what the call returned.
\* The clock visits the minutes at which an age reaches FreshMinutes - 1 and
\* FreshMinutes: 0, 4, 5, 9, 10, ...
Quiet == pc = "idle" /\ fpc = "none" /\ saveQueue = <<>>

NextInstant(t) == IF t % FreshMinutes = 0 THEN t + FreshMinutes - 1 ELSE t + 1

Tick ==
    /\ now < MaxTime
    /\ Quiet
    /\ now' = NextInstant(now)
    /\ result' = <<>>
    /\ source' = "none"
    /\ race' = "none"
    /\ phaseResult' = <<>>
    /\ discarded' = 0
    /\ cached' = <<>>
    /\ readAt' = NextInstant(now)
    /\ phases' = {}
    /\ handed' = {}
    /\ requests' = 0
    /\ lastRequest' = NoRequest
    /\ expectCache' = 0
    /\ places' = <<>>
    /\ UNCHANGED <<table, isLoaded, script, pc, callNo, fpc, idx, conds,
                   inflight, saveQueue, lastLive>>
    /\ UNCHANGED notTraffic

ExternalRows(tbl) ==
    Cardinality({k \in 1..Len(tbl) : tbl[k].id.prefix # UuidPrefix})

\* "Anyone can insert traffic conditions": a row another writer stored
ExternalInsert(prefix, near) ==
    /\ Quiet
    /\ ExternalRows(table) < MaxExternalRows
    /\ table' = Append(table,
                  [id |-> [prefix |-> prefix, t |-> now, i |-> 0],
                   severity |-> "low", confidence |-> RealConfidence,
                   timestamp |-> now, near |-> near])
    /\ UNCHANGED <<now, isLoaded, script, pc, callNo, result, source, race, fpc,
                   places, idx, conds, requests, inflight, saveQueue, lastLive,
                   expectCache, phaseResult, discarded, cached, readAt, phases,
                   handed>>
    /\ UNCHANGED <<lastRequest, notTraffic>>

(***************************************************************************)
(* The traffic derivation pipeline.                                        *)
(***************************************************************************)
SevIdle ==
    /\ sevDelay = 0 /\ sevBase = 0 /\ sevTraffic = None /\ sevRoute = None

RouteIdle ==
    /\ rpc = "idle"
    /\ request = [userId |-> FALSE]
    /\ provider = [status |-> None, legs |-> <<>>]
    /\ routes = <<>>
    /\ response = [routes |-> <<>>, status |-> None, message |-> None]
    /\ saved = <<>>
    /\ providerLog = [searches |-> 0, directions |-> 0, search |-> None]
    /\ savedRoutes = [read |-> None, routes |-> <<>>]

TrafficIdle ==
    /\ now = 0
    /\ table = <<>>
    /\ isLoaded = FALSE
    /\ script = "none"
    /\ pc = "idle"
    /\ callNo = 0
    /\ result = <<>>
    /\ source = "none"
    /\ race = "none"
    /\ fpc = "none"
    /\ places = <<>>
    /\ idx = 0
    /\ conds = <<>>
    /\ requests = 0
    /\ inflight = 0
    /\ saveQueue = <<>>
    /\ lastLive = [size |-> 0, at |-> 0, save |-> "none"]
    /\ expectCache = 0
    /\ phaseResult = <<>>
    /\ discarded = 0
    /\ cached = <<>>
    /\ readAt = 0
    /\ phases = {}
    /\ handed = {}
    /\ lastRequest = NoRequest

LoaderIdle ==
    /\ clock = 0
    /\ apiKey = TRUE
    /\ google = FALSE
    /\ sdkIsLoaded = FALSE
    /\ tags = 0
    /\ tagState = "none"
    /\ loads = <<>>

\* localStorage entries: absent, not parseable, or what saveLocation wrote
NoEntry == [kind |-> "absent", location |-> None, timestamp |-> 0]
Unparseable == [kind |-> "garbage", location |-> None, timestamp |-> 0]
SavedLocationData(loc, t) == [kind |-> "entry", location |-> loc, timestamp |-> t]

NoLoad == [entry |-> NoEntry, at |-> 0, returned |-> NoEntry, after |-> NoEntry,
           used |-> FALSE, called |-> FALSE]

NoRefresh == [state |-> "none", held |-> None, entry |-> NoEntry]

GeoIdle ==
    /\ geoNow = 0
    /\ storage = NoEntry
    /\ mounted = FALSE
    /\ location = None
    /\ error = None
    /\ isRequestingLocation = FALSE
    /\ effectPending = FALSE
    /\ geoRequest = "none"
    /\ issued = 0
    /\ sinceFailure = FALSE
    /\ autoRequests = 0
    /\ lastLoad = NoLoad
    /\ lastRefresh = NoRefresh

SimIdle ==
    /\ simHour = 0
    /\ simPc = "idle"
    /\ simCount = 0
    /\ simConditions = <<>>
    /\ simResult = <<>>

PredIdle ==
    /\ predHour = 0
    /\ predConditions = <<>>
    /\ predictions = <<>>

NoReply == [net |-> "none", status |-> 0, body |-> None]
NoInsight == [from |-> None]

AiIdle ==
    /\ aiPc = "idle"
    /\ aiReply = NoReply
    /\ aiInsight = NoInsight

PlacesIdle ==
    /\ nearPc = "idle"
    /\ nearRadius = 0
    /\ nearQuery = 0
    /\ nearAll = <<>>
    /\ searched = <<>>
    /\ nearbyResult = <<>>

\* useState([]) / useState(null): nothing fetched yet
NothingShown == [by |-> 0, loc |-> None, content |-> "initial", source |-> None]

RefreshIdle ==
    /\ component = "useTrafficData"
    /\ hookNow = 0
    /\ hookPhase = "initial"
    /\ userLocation = None
    /\ interval = 0
    /\ timers = {}
    /\ cleared = {}
    /\ fetches = {}
    /\ started = 0
    /\ shown = NothingShown
    /\ isLoading = FALSE
    /\ isAutoRefreshing = FALSE
    /\ hookError = None
    /\ lateCalls = 0

MoreIdle == LoaderIdle /\ GeoIdle /\ SimIdle /\ PredIdle /\ AiIdle /\ PlacesIdle /\ RefreshIdle

Init == TrafficIdle /\ SevIdle /\ RouteIdle /\ MoreIdle

Next ==
    \/ Call
    \/ ScriptLoads
    \/ ScriptError
    \/ LoadTimeout
    \/ WaitForGoogle
    \/ \E readOk \in BOOLEAN : CacheRead(readOk)
    \/ FetchTimeout
    \/ \E geocodeOk \in BOOLEAN : ReverseGeocodeCenter(geocodeOk)
    \/ \E searches \in SearchScenarios : FindPlaces(searches)
    \/ LoopHead
    \/ \E d \in DirectionsOutcomes : DirectionsSettles(d)
    \/ \E h \in SimHours, k \in 2..4, failed \in BOOLEAN :
          \E severities \in [1..k -> SimSeverities(h)] :
             Simulate(h, k, severities, failed)
    \/ \E insertOk \in BOOLEAN : SaveNext(insertOk)
    \/ Tick
    \/ \E row \in {<<RealPrefix, TRUE>>, <<RealPrefix, FALSE>>, <<SimPrefix, TRUE>>} :
          ExternalInsert(row[1], row[2])

Spec == Init /\ [][Next]_vars

(***************************************************************************)
(* Claims about the traffic derivation pipeline.                           *)
(***************************************************************************)
Qualifies(c, t) == t - c.timestamp < 5 /\ c.id.prefix = "real-traffic-"

\* C1: a cached condition is served from the cache exactly when it is less
\* than 5 minutes old and its id starts with real-traffic-; when one
\* qualifies, exactly the qualifying entries are returned and neither a live
\* fetch nor a simulation is started; a simulation- entry is never served.
C1_CacheServesRecentReal ==
    /\ source = "cache" =>
          /\ result = SelectSeq(cached, LAMBDA c : Qualifies(c, readAt))
          /\ result # <<>>
          /\ phases = {}
          /\ requests = 0
          /\ race = "none"
          /\ \A k \in 1..Len(result) : result[k].id.prefix # "simulation-"
    /\ phases # {} => \A k \in 1..Len(cached) : ~Qualifies(cached[k], readAt)

\* a cache hit that served a real row and left another cached row out
C1_Witness ==
    /\ source = "cache"
    /\ Len(result) < Len(cached)

\* C2: once a live result has been persisted successfully, a call made less
\* than 5 minutes later that reads those rows serves them from the cache and
\* issues no directions request.
C2_SavedLiveResultIsReadBack ==
    (expectCache > 0 /\ Len(cached) >= expectCache) =>
        /\ "fetch" \notin phases
        /\ requests = 0
        /\ source # "none" => (source = "cache" /\ Len(result) = expectCache)

\* C6: the call never raises, never waits for an SDK that cannot arrive, and
\* its failure outcome is the empty list.
C6_ReturnsList ==
    /\ pc # "threw"
    /\ ~(pc = "sdk_poll" /\ script = "error")
    /\ source = "error" => result = <<>>

\* C7: when the 30 s timer fires first, the fetch phase has returned the empty
\* list, and nothing the fetch produces afterwards is returned or persisted.
C7_TimeoutDiscardsFetch ==
    race = "timerWon" =>
        /\ pc # "fetch"
        /\ phaseResult = <<>>
        /\ source # "live"
        /\ \A k \in 1..Len(result) : result[k].id.prefix # "real-traffic-"
        /\ saveQueue = <<>>
        /\ handed = {}

\* the fetch went on after the timer, produced conditions, and the call
\* returned the simulation
C7_Witness ==
    /\ race = "timerWon"
    /\ discarded > 0
    /\ fpc = "none"
    /\ source = "sim"

Collected == IF race = "fetchWon" THEN Len(phaseResult) ELSE discarded

\* C8: at most one directions request is in flight, at most 5 are issued, none
\* once 3 conditions are collected, and the loop ends only when the candidates
\* are used up or 3 conditions are collected (a failed request does not end it).
C8_SequentialBoundedRequests ==
    /\ inflight <= 1
    /\ requests <= 5
    /\ Len(conds) <= 3
    /\ fpc = "inflight" => Len(conds) < 3
    /\ source = "live" => Len(result) <= 3
    /\ fpc \in {"loop", "inflight"} =>
          requests = idx + (IF fpc = "inflight" THEN 1 ELSE 0)
    /\ (fpc = "none" /\ places # <<>>) =>
          \/ requests = Min(Len(places), 5)
          \/ Collected = 3

\* five requests, two of them without a condition, three conditions
C8_Witness ==
    /\ fpc = "none"
    /\ requests = 5
    /\ Collected = 3

\* C9: a live result is returned as fetched, whatever becomes of its save; an
\* empty fetch phase makes the call return the simulation's output.
C9_LiveReturnedSaveDetached ==
    /\ source = "live" =>
          /\ result = phaseResult
          /\ result # <<>>
          /\ "sim" \notin phases
    /\ source = "sim" =>
          /\ phaseResult = <<>>
          /\ phases = {"fetch", "sim"}
          /\ \A k \in 1..Len(result) : result[k].id.prefix = "simulation-"
    /\ (pc = "idle" /\ "fetch" \in phases) => source \in {"live", "sim"}
    /\ (pc = "idle" /\ source = "live" /\ saveQueue = <<>>) => lastLive.save \in {"ok", "failed"}

\* the call has returned its live result while the save is still running and
\* one insert has already failed
C9_Witness ==
    /\ pc = "idle"
    /\ source = "live"
    /\ saveQueue # <<>>
    /\ lastLive.save = "failed"

\* C29: the directions request carries provideRouteAlternatives as the
\* caller passed it (true when the caller passed none); the traffic
\* pipeline passes false.
C29_AlternativesAsPassed ==
    lastRequest.sent =>
        LET passed == lastRequest.options.provideRouteAlternatives
        IN  /\ passed = Passed(FALSE)
            /\ lastRequest.request.provideRouteAlternatives
                  = (IF passed.given THEN passed.value ELSE TRUE)

\* C26: only conditions of a live fetch are handed to saveConditionsToCache,
\* so no row of the table holds a simulated condition, whatever the calls
\* were; and a returned list is all live or all simulated.
C26_SimulationNeverCached ==
    /\ \A c \in handed \cup Range(saveQueue) :
          c.id.prefix = RealPrefix /\ c.confidence = RealConfidence
    /\ \A k \in 1..Len(table) :
          table[k].id.prefix = UuidPrefix =>
             table[k].confidence # SimConfidence
    /\ \A i, j \in 1..Len(result) :
          result[i].id.prefix = result[j].id.prefix
    /\ source = "sim" =>
          \A i \in 1..Len(result) : result[i].id.prefix = SimPrefix
    /\ source = "live" =>
          \A i \in 1..Len(result) : result[i].id.prefix = RealPrefix

\* a live result was saved, and a later call returned the simulation
C26_Witness ==
    /\ callNo = 2
    /\ pc = "idle" /\ source = "sim" /\ Len(result) > 1
    /\ lastLive.save = "ok"
    /\ saveQueue = <<>>
    /\ \E k \in 1..Len(table) : table[k].id.prefix = UuidPrefix

(***************************************************************************)
(* Severity classification applied to pairs (delay, base duration).        *)
(***************************************************************************)
SevInit ==
    /\ sevDelay \in 0..MaxSevDelay
    /\ sevBase \in 0..MaxSevBase
    /\ sevTraffic = None
    /\ sevRoute = None

ClassifyCondition ==
    /\ sevTraffic = None
    /\ sevTraffic' = calculateSeverityFromDelay(sevDelay, sevBase)
    /\ UNCHANGED <<sevDelay, sevBase, sevRoute, notSeverity>>

ClassifyRoute ==
    /\ sevRoute = None
    /\ sevRoute' = calculateTrafficLevel(sevDelay, sevBase)
    /\ UNCHANGED <<sevDelay, sevBase, sevTraffic, notSeverity>>

SeverityInit == SevInit /\ TrafficIdle /\ RouteIdle /\ MoreIdle

SeverityNext == ClassifyCondition \/ ClassifyRoute

SpecSeverity == SeverityInit /\ [][SeverityNext]_vars

\* C3: both classifiers give the same level for delay >= 0 and base > 0:
\* severe from 50 %, high from 25 %, moderate from 10 %, else low.
C3_SameBandsEverywhere ==
    (sevTraffic # None /\ sevRoute # None /\ sevBase > 0) =>
        /\ sevTraffic = sevRoute
        /\ sevRoute = (IF sevDelay * 100 >= 50 * sevBase THEN "severe"
                       ELSE IF sevDelay * 100 >= 25 * sevBase THEN "high"
                       ELSE IF sevDelay * 100 >= 10 * sevBase THEN "moderate"
                       ELSE "low")
        /\ (sevDelay = 12 /\ sevBase = 20) => sevRoute = "severe"
        /\ (sevDelay = 4 /\ sevBase = 20) => sevRoute = "moderate"
        /\ (sevDelay = 1 /\ sevBase = 20) => sevRoute = "low"

\* delay 2 of base 20 is exactly 10 %: both say moderate
C3_Witness ==
    /\ sevDelay = 2 /\ sevBase = 20
    /\ sevTraffic = "moderate" /\ sevRoute = "moderate"

(***************************************************************************)
(* RouteService.calculateRoutes.  A leg is what the provider reports for    *)
(* one alternative: duration and duration_in_traffic in seconds, the       *)
(* latter possibly absent.                                                  *)
(***************************************************************************)
Undefined == 0 - 1

\* route.summary as its parts between ' and '; '' has none
LegSummary(traffic) ==
    CASE traffic = 1500 -> <<"I-80">>
      [] traffic = 1530 -> <<"I-80", "US-101">>
      [] traffic = 1800 -> <<"I-80", "", "US-101">>
      [] traffic = 2400 -> <<"I-80", "US-101", "CA-1", "CA-17">>
      [] OTHER -> <<>>

\* the sample legs: distance.value in meters at 15 m/s of base duration
Leg(duration, traffic) ==
    [duration |-> duration, traffic |-> traffic, distance |-> 15 * duration,
     summary |-> LegSummary(traffic)]

LegDurations == {1200, 1800}
LegTraffic == {Undefined, 1500, 1530, 1800, 2400}
Legs == {Leg(d, t) : d \in LegDurations, t \in LegTraffic}

ProviderBatches ==
    UNION {[1..n -> Legs] : n \in 0..MaxRoutes}

DirectionsStatuses ==
    {"OK", "NOT_FOUND", "ZERO_RESULTS", "MAX_WAYPOINTS_EXCEEDED",
     "INVALID_REQUEST", "OVER_QUERY_LIMIT", "REQUEST_DENIED", "UNKNOWN_ERROR",
     "OTHER"}

getDirectionsErrorMessage(status) ==
    CASE status = "NOT_FOUND" ->
           "One or more locations could not be found. Please check your destination and try again."
      [] status = "ZERO_RESULTS" ->
           "No route could be found between these locations. Try a different destination or travel mode."
      [] status = "MAX_WAYPOINTS_EXCEEDED" ->
           "Too many waypoints in the request. Please simplify your route."
      [] status = "INVALID_REQUEST" ->
           "Invalid route request. Please check your input and try again."
      [] status = "OVER_QUERY_LIMIT" ->
           "Service temporarily unavailable due to high demand. Please try again in a moment."
      [] status = "REQUEST_DENIED" ->
           "Route service access denied. Please contact support."
      [] status = "UNKNOWN_ERROR" ->
           "An unknown error occurred. Please try again."
      [] OTHER -> "Unable to calculate routes. Please try again."

NoResultsMessage ==
    "No results found for the destination. Please try a more specific location or check the spelling."
SearchFailedMessage ==
    "Unable to search for destination. Please check your internet connection and try again."
DirectionsFailedMessage ==
    "Unable to calculate routes. Please try again or check if the destination is reachable by car."

\* GoogleMapsService.calculateDirections: the promise resolves only on OK
calculateDirections(status, legs) ==
    IF status = "OK"
    THEN [settled |-> "resolved", status |-> status, routes |-> legs]
    ELSE [settled |-> "rejected", status |-> status, routes |-> <<>>]

RecommendFastest(index, trafficLevel, legs) ==
    /\ trafficLevel # "severe"
    /\ \A j \in 1..Len(legs) :
          (IF legs[j].traffic # Undefined THEN legs[j].traffic
           ELSE legs[j].duration)
          >= (IF legs[index + 1].traffic # Undefined THEN legs[index + 1].traffic
              ELSE legs[index + 1].duration)
\* index is 0-based as in Array.map
IsRecommended(index, trafficLevel, legs) ==
    index = 0 /\ trafficLevel # "severe"

\* meters / 1609.34 as an exact fraction
Miles(meters) == [num |-> meters * 100, den |-> 160934]

\* summary.split(' and ').filter(w => w.length > 0).slice(0, 3)
extractWaypoints(summary) ==
    Limit(SelectSeq(summary, LAMBDA w : w # ""), 3)

ToRouteSignedDelay(legs, index) ==
    LET leg == legs[index + 1]
        duration == RoundDiv(leg.duration, 60)
        durationWithTraffic ==
            IF leg.traffic # Undefined THEN RoundDiv(leg.traffic, 60)
            ELSE duration
        trafficDelay == durationWithTraffic - duration
        trafficLevel == calculateTrafficLevel(trafficDelay, duration)
    IN  [id |-> index,
         distance |-> Miles(leg.distance),
         duration |-> duration,
         durationWithTraffic |-> durationWithTraffic,
         trafficDelay |-> trafficDelay,
         trafficLevel |-> trafficLevel,
         isRecommended |-> IsRecommended(index, trafficLevel, legs),
         savings |-> Undefined,
         waypoints |-> extractWaypoints(leg.summary)]
ToRoute(legs, index) ==
    LET leg == legs[index + 1]
        duration == RoundDiv(leg.duration, 60)
        durationWithTraffic ==
            IF leg.traffic # Undefined THEN RoundDiv(leg.traffic, 60)
            ELSE duration
        trafficDelay == Max(0, durationWithTraffic - duration)
        trafficLevel == calculateTrafficLevel(trafficDelay, duration)
    IN  [id |-> index,
         distance |-> Miles(leg.distance),
         duration |-> duration,
         durationWithTraffic |-> durationWithTraffic,
         trafficDelay |-> trafficDelay,
         trafficLevel |-> trafficLevel,
         isRecommended |-> IsRecommended(index, trafficLevel, legs),
         savings |-> Undefined,
         waypoints |-> extractWaypoints(leg.summary)]

\* otherRoutes.reduce(...): the smallest durationWithTraffic among the others
RECURSIVE FastestOther(_, _, _)
FastestOther(rs, currentIndex, upTo) ==
    IF upTo = 0 THEN Undefined
    ELSE LET before == FastestOther(rs, currentIndex, upTo - 1)
         IN  IF upTo = currentIndex + 1 THEN before
             ELSE IF before = Undefined THEN rs[upTo].durationWithTraffic
             ELSE Min(before, rs[upTo].durationWithTraffic)

SavingsAbsolute(rs, currentIndex) ==
    IF Len(rs) <= 1 THEN Undefined
    ELSE LET d == FastestOther(rs, currentIndex, Len(rs))
                  - rs[currentIndex + 1].durationWithTraffic
         IN  IF d > 0 THEN d ELSE IF d < 0 THEN 0 - d ELSE Undefined
calculateSavings(rs, currentIndex) ==
    IF Len(rs) <= 1 THEN Undefined
    ELSE LET savings == FastestOther(rs, currentIndex, Len(rs))
                        - rs[currentIndex + 1].durationWithTraffic
         IN  IF savings > 0 THEN savings ELSE Undefined

ScoreRoutes(legs) ==
    LET mapped == [i \in 1..Len(legs) |-> ToRoute(legs, i - 1)]
    IN  [i \in 1..Len(mapped) |->
            IF mapped[i].isRecommended
            THEN [mapped[i] EXCEPT !.savings = calculateSavings(mapped, i - 1)]
            ELSE mapped[i]]

Success(rs) == [routes |-> rs, status |-> "success", message |-> None]
Failure(message) == [routes |-> <<>>, status |-> "error", message |-> message]

\* calculateRoutes(request): the destination search is issued first
CalculateRoutes(userId) ==
    /\ rpc \in {"idle", "done"}
    /\ rpc' = "search"
    /\ request' = [userId |-> userId]
    /\ provider' = [status |-> None, legs |-> <<>>]
    /\ routes' = <<>>
    /\ response' = [routes |-> <<>>, status |-> None, message |-> None]
    /\ saved' = <<>>
    /\ providerLog' = [searches |-> 1, directions |-> 0, search |-> None]
    /\ savedRoutes' = [read |-> None, routes |-> <<>>]
    /\ UNCHANGED notRoutes

SearchRetriedOnce(outcome) ==
    /\ rpc = "search"
    /\ IF outcome = "found"
       THEN /\ rpc' = "directions"
            /\ UNCHANGED response
       ELSE IF outcome = "rejected" /\ providerLog.searches < 2
       THEN UNCHANGED <<rpc, response>>
       ELSE /\ rpc' = "done"
            /\ response' = Failure(IF outcome = "empty" THEN NoResultsMessage
                                   ELSE SearchFailedMessage)
    /\ providerLog' = [providerLog EXCEPT
                          !.search = outcome,
                          !.searches = IF outcome = "rejected" /\ @ < 2
                                       THEN @ + 1 ELSE @,
                          !.directions = IF outcome = "found" THEN @ + 1 ELSE @]
    /\ UNCHANGED <<request, provider, routes, saved, savedRoutes, notRoutes>>
\* searchPlaces settles: rejected, resolved empty, or resolved with places
SearchSettles(outcome) ==
    /\ rpc = "search"
    /\ IF outcome = "found"
       THEN /\ rpc' = "directions"
            /\ UNCHANGED response
       ELSE /\ rpc' = "done"
            /\ response' = Failure(IF outcome = "empty" THEN NoResultsMessage
                                   ELSE SearchFailedMessage)
    /\ providerLog' = [providerLog EXCEPT
                          !.search = outcome,
                          !.directions = IF outcome = "found" THEN @ + 1 ELSE @]
    /\ UNCHANGED <<request, provider, routes, saved, savedRoutes, notRoutes>>

\* the provider answers the directions request with a status and its legs
DirectionsAnswer(status, legs) ==
    /\ rpc = "directions"
    /\ provider' = [status |-> status, legs |-> legs]
    /\ LET directionsResult == calculateDirections(status, legs)
       IN  IF directionsResult.settled = "rejected"
           THEN /\ rpc' = "done"
                /\ response' = Failure(DirectionsFailedMessage)
                /\ UNCHANGED routes
           ELSE IF directionsResult.status # "OK"
           THEN /\ rpc' = "done"
                /\ response' =
                       Failure(getDirectionsErrorMessage(directionsResult.status))
                /\ UNCHANGED routes
           ELSE /\ routes' = ScoreRoutes(directionsResult.routes)
                /\ IF request.userId /\ directionsResult.routes # <<>>
                   THEN /\ rpc' = "save"
                        /\ UNCHANGED response
                   ELSE /\ rpc' = "done"
                        /\ response' = Success(routes')
    /\ UNCHANGED <<request, saved, providerLog, savedRoutes, notRoutes>>

\* a column without a value holds NULL
Null == 0 - 2

\* the RouteRecord saveRoutesToDatabase builds from a RouteResult
ToRouteRecord(req, route) ==
    [user_id |-> req.userId,
     distance |-> route.distance,
     duration |-> route.duration,
     duration_with_traffic |-> route.durationWithTraffic,
     traffic_delay |-> route.trafficDelay,
     traffic_level |-> route.trafficLevel,
     is_recommended |-> route.isRecommended,
     savings |-> route.savings,
     waypoints |-> route.waypoints]

\* insert(...).select().single(): the row as stored, with its generated id
InsertRoute(record, uuid) ==
    [record EXCEPT !.savings = IF @ = Undefined THEN Null ELSE @]
       @@ [id |-> [prefix |-> UuidPrefix, n |-> uuid], created_at |-> uuid]

\* SupabaseService.getUserRoutes: the user's rows, newest first
RECURSIVE Reverse(_)
Reverse(rows) ==
    IF rows = <<>> THEN <<>>
    ELSE Append(Reverse(Tail(rows)), Head(rows))

getUserRoutes(tbl, userId, readOk) ==
    IF ~readOk THEN <<>>
    ELSE Reverse(SelectSeq(tbl, LAMBDA r : r.user_id = userId))

FromRecordDurationForBoth(route) ==
    [id |-> route.id,
     distance |-> route.distance,
     duration |-> route.duration,
     durationWithTraffic |-> route.duration,
     trafficDelay |-> route.traffic_delay,
     trafficLevel |-> route.traffic_level,
     isRecommended |-> route.is_recommended,
     savings |-> route.savings,
     waypoints |-> route.waypoints]
\* the RouteResult getSavedRoutes builds from a stored row
FromRecord(route) ==
    [id |-> route.id,
     distance |-> route.distance,
     duration |-> route.duration,
     durationWithTraffic |-> route.duration_with_traffic,
     trafficDelay |-> route.traffic_delay,
     trafficLevel |-> route.traffic_level,
     isRecommended |-> route.is_recommended,
     savings |-> route.savings,
     waypoints |-> route.waypoints]

getSavedRoutes(tbl, userId, readOk) ==
    LET savedRows == getUserRoutes(tbl, userId, readOk)
    IN  [i \in 1..Len(savedRows) |-> FromRecord(savedRows[i])]

\* the rows of saved_routes: the inserts that succeeded
StoredRows ==
    LET kept == SelectSeq(saved, LAMBDA s : s.stored)
    IN  [i \in 1..Len(kept) |-> kept[i].row]

SaveRouteStopsOnFailure(insertOk) ==
    /\ rpc = "save"
    /\ saved' = Append(saved,
                       [id |-> routes[Len(saved) + 1].id,
                        stored |-> insertOk,
                        row |-> InsertRoute(ToRouteRecord(request,
                                                          routes[Len(saved) + 1]),
                                            Len(saved) + 1)])
    /\ IF Len(saved') = Len(routes) \/ ~insertOk
       THEN /\ rpc' = "done"
            /\ response' = Success(routes)
       ELSE UNCHANGED <<rpc, response>>
    /\ UNCHANGED <<request, provider, routes, providerLog, savedRoutes,
                   notRoutes>>
\* saveRoutesToDatabase: one awaited saveRoute per route, a failed insert
\* yields null and the loop goes on
SaveRoute(insertOk) ==
    /\ rpc = "save"
    /\ saved' = Append(saved,
                       [id |-> routes[Len(saved) + 1].id,
                        stored |-> insertOk,
                        row |-> InsertRoute(ToRouteRecord(request,
                                                          routes[Len(saved) + 1]),
                                            Len(saved) + 1)])
    /\ IF Len(saved') = Len(routes)
       THEN /\ rpc' = "done"
            /\ response' = Success(routes)
       ELSE UNCHANGED <<rpc, response>>
    /\ UNCHANGED <<request, provider, routes, providerLog, savedRoutes,
                   notRoutes>>

\* getSavedRoutes(userId) once the calculation has returned
GetSavedRoutes(readOk) ==
    /\ rpc = "done"
    /\ savedRoutes.read = None
    /\ savedRoutes' = [read |-> IF readOk THEN "ok" ELSE "failed",
                       routes |-> getSavedRoutes(StoredRows, request.userId,
                                                 readOk)]
    /\ UNCHANGED <<rpc, request, provider, routes, response, saved,
                   providerLog, notRoutes>>

RoutesInit == RouteIdle /\ TrafficIdle /\ SevIdle /\ MoreIdle

RoutesNext ==
    \/ \E userId \in BOOLEAN : CalculateRoutes(userId)
    \/ \E outcome \in {"rejected", "empty", "found"} : SearchSettles(outcome)
    \/ \E status \in DirectionsStatuses :
          \E legs \in (IF status = "OK" THEN ProviderBatches ELSE {<<>>}) :
             DirectionsAnswer(status, legs)
    \/ \E insertOk \in BOOLEAN : SaveRoute(insertOk)
    \/ \E readOk \in BOOLEAN : GetSavedRoutes(readOk)

SpecRoutes == RoutesInit /\ [][RoutesNext]_vars

Batch == rpc = "done" /\ response.status = "success"

\* C4: in a returned batch route i is recommended iff i = 0 and route 0 is
\* not severe; so at most one route is recommended, it is the first one even
\* when another alternative is faster, and none when route 0 is severe.
C4_OnlyFirstNonSevereRecommended ==
    Batch =>
        /\ \A i \in 1..Len(response.routes) :
              response.routes[i].isRecommended
                 <=> (i = 1 /\ response.routes[1].trafficLevel # "severe")
        /\ Cardinality({i \in 1..Len(response.routes) :
                           response.routes[i].isRecommended}) <= 1
        /\ (Len(response.routes) > 0
            /\ response.routes[1].trafficLevel = "severe")
              => \A i \in 1..Len(response.routes) :
                    ~response.routes[i].isRecommended

\* durations with traffic [40, 25, 30]: index 0 is recommended
C4_Witness ==
    /\ Batch
    /\ Len(response.routes) = 3
    /\ response.routes[1].durationWithTraffic = 40
    /\ response.routes[2].durationWithTraffic = 25
    /\ response.routes[3].durationWithTraffic = 30
    /\ response.routes[1].isRecommended

OthersMin(rs, i) ==
    CHOOSE m \in {rs[j].durationWithTraffic : j \in 1..Len(rs) \ {i}} :
        \A j \in 1..Len(rs) \ {i} : m <= rs[j].durationWithTraffic

\* C5: only the recommended route carries savings; its savings is the
\* smallest durationWithTraffic among the other routes minus its own when
\* that is strictly positive, and undefined otherwise or in a batch of one.
C5_SavingsOnlyForRecommended ==
    Batch =>
        \A i \in 1..Len(response.routes) :
            LET r == response.routes[i]
            IN  /\ r.savings # Undefined => r.isRecommended
                /\ r.isRecommended =>
                      IF Len(response.routes) = 1 THEN r.savings = Undefined
                      ELSE LET d == OthersMin(response.routes, i)
                                    - r.durationWithTraffic
                           IN  r.savings = (IF d > 0 THEN d ELSE Undefined)

\* durations with traffic [30, 25, 40]: route 0 is recommended, no savings
C5_Witness ==
    /\ Batch
    /\ Len(response.routes) = 3
    /\ response.routes[1].durationWithTraffic = 30
    /\ response.routes[2].durationWithTraffic = 25
    /\ response.routes[3].durationWithTraffic = 40
    /\ response.routes[1].isRecommended
    /\ response.routes[1].savings = Undefined

\* C10: a non-OK directions status yields status 'error' with the message
\* the fixed table assigns to that status.
C10_StatusMessageFromTable ==
    (rpc = "done" /\ provider.status \notin {None, "OK"}) =>
        /\ response.status = "error"
        /\ response.message = getDirectionsErrorMessage(provider.status)

\* C11: calculateRoutes never throws; its result has status success or
\* error; zero search results give error; an error carries no routes and a
\* non-empty message; no provider call is repeated within one invocation.
C11_AlwaysAResultNoRetry ==
    /\ rpc # "threw"
    /\ providerLog.searches <= 1 /\ providerLog.directions <= 1
    /\ rpc = "done" =>
          /\ response.status \in {"success", "error"}
          /\ providerLog.search = "empty" => response.status = "error"
          /\ response.status = "error" =>
                /\ response.routes = <<>>
                /\ response.message \notin {None, ""}

\* the search found nothing: a terminal error with its message
C11_Witness ==
    /\ rpc = "done"
    /\ providerLog.search = "empty"
    /\ response = Failure(NoResultsMessage)
    /\ providerLog.searches = 1 /\ providerLog.directions = 0

\* C12: with a userId every route of the batch is saved, one save per route
\* in batch order, going on after a failed save; the response is the same
\* whatever the saves did; without a userId nothing is saved.
C12_EveryRouteSavedResponseUnaffected ==
    (rpc = "done" /\ response.status = "success") =>
        /\ response.routes = ScoreRoutes(provider.legs)
        /\ request.userId =>
              /\ Len(saved) = Len(response.routes)
              /\ \A i \in 1..Len(saved) : saved[i].id = response.routes[i].id
        /\ ~request.userId => saved = <<>>

\* three routes, the first save failed, the two after it were still made
C12_Witness ==
    /\ rpc = "done" /\ response.status = "success"
    /\ request.userId
    /\ Len(saved) = 3
    /\ ~saved[1].stored /\ saved[2].stored /\ ~saved[3].stored
    /\ ~response.routes[2].isRecommended

\* C22: every returned route has trafficDelay = max(0, durationWithTraffic
\* - duration) >= 0; without a traffic-aware duration durationWithTraffic
\* is the duration, the delay 0 and the level low; a traffic-aware duration
\* shorter than the base duration also gives delay 0.
C22_DelayFlooredAtZero ==
    Batch =>
        \A i \in 1..Len(response.routes) :
            LET r == response.routes[i]
                leg == provider.legs[i]
            IN  /\ r.trafficDelay >= 0
                /\ r.trafficDelay = Max(0, r.durationWithTraffic - r.duration)
                /\ leg.traffic = Undefined =>
                      /\ r.durationWithTraffic = r.duration
                      /\ r.trafficDelay = 0
                      /\ r.duration > 0 => r.trafficLevel = "low"
                /\ (leg.traffic # Undefined /\ leg.traffic < leg.duration) =>
                      /\ r.durationWithTraffic < r.duration
                      /\ r.trafficDelay = 0

\* one route faster with traffic than without (25 against 30 minutes), one
\* without a traffic-aware duration, one delayed
C22_Witness ==
    /\ Batch
    /\ Len(response.routes) = 3
    /\ provider.legs[1] = Leg(1800, 1500)
    /\ response.routes[1].durationWithTraffic = 25
    /\ response.routes[1].trafficDelay = 0
    /\ provider.legs[2].traffic = Undefined
    /\ response.routes[2].trafficDelay = 0
    /\ response.routes[3].trafficDelay = 10

\* C21: every row this call persisted comes back from getSavedRoutes with
\* the distance, duration, durationWithTraffic, trafficLevel and waypoints
\* of the route it was built from, and nothing else comes back.
C21_SavedRouteReadBackUnchanged ==
    savedRoutes.read = "ok" =>
        /\ \A k \in 1..Len(saved) :
              saved[k].stored =>
                 \E i \in 1..Len(savedRoutes.routes) :
                    LET back == savedRoutes.routes[i]
                        r == response.routes[k]
                    IN  /\ back.id = saved[k].row.id
                        /\ back.distance = r.distance
                        /\ back.duration = r.duration
                        /\ back.durationWithTraffic = r.durationWithTraffic
                        /\ back.trafficLevel = r.trafficLevel
                        /\ back.waypoints = r.waypoints
        /\ Len(savedRoutes.routes)
              = Cardinality({k \in 1..Len(saved) : saved[k].stored})

\* two routes persisted and read back, one delayed by traffic, one with a
\* summary of more than three parts
C21_Witness ==
    /\ savedRoutes.read = "ok"
    /\ Len(savedRoutes.routes) = 2
    /\ Len(saved) = 3 /\ ~saved[2].stored
    /\ response.routes[1].durationWithTraffic > response.routes[1].duration
    /\ Len(response.routes[3].waypoints) = 3
    /\ savedRoutes.routes[1].waypoints = <<"I-80", "US-101", "CA-1">>
    /\ savedRoutes.routes[2].durationWithTraffic = 25

(***************************************************************************)
(* GoogleMapsService.loadGoogleMaps, called any number of times in one     *)
(* page session.  A call is a record: where it stands, when it started,    *)
(* whether it injected a script tag, and what the tag was when it started. *)
(***************************************************************************)
\* the clock advances in thirds of the load timeout
ClockStep == LoadTimeoutSeconds \div 3

ExistingScriptStillLoading == tagState = "pending"
\* document.querySelector('script[src*="maps.googleapis.com"]')
ExistingScript == tags > 0

Load(position, injected) ==
    [pc |-> position, started |-> clock, injected |-> injected,
     tagWas |-> tagState]

\* the set of calls that wait on the script they injected
Injectors == {i \in 1..Len(loads) : loads[i].pc = "own"}
Pollers == {i \in 1..Len(loads) : loads[i].pc = "poll"}

Settle(calls, outcome) ==
    [i \in 1..Len(loads) |->
        IF i \in calls THEN [loads[i] EXCEPT !.pc = outcome] ELSE loads[i]]

LoadGoogleMaps ==
    /\ Len(loads) < MaxLoadCalls
    /\ IF sdkIsLoaded /\ google
       THEN /\ loads' = Append(loads, Load("resolved", FALSE))
            /\ UNCHANGED <<sdkIsLoaded, tags, tagState>>
       ELSE IF ~apiKey
       THEN /\ loads' = Append(loads, Load("rejected", FALSE))
            /\ UNCHANGED <<sdkIsLoaded, tags, tagState>>
       ELSE IF google
       THEN /\ sdkIsLoaded' = TRUE
            /\ loads' = Append(loads, Load("resolved", FALSE))
            /\ UNCHANGED <<tags, tagState>>
       ELSE IF ExistingScript
       THEN /\ loads' = Append(loads, Load("poll", FALSE))
            /\ UNCHANGED <<sdkIsLoaded, tags, tagState>>
       ELSE /\ tags' = tags + 1
            /\ tagState' = "pending"
            /\ loads' = Append(loads, Load("own", TRUE))
            /\ UNCHANGED sdkIsLoaded
    /\ UNCHANGED <<clock, apiKey, google, notLoader>>

\* window.initGoogleMaps: the script has run
InitGoogleMaps(servicesOk) ==
    /\ tagState = "pending"
    /\ tagState' = "loaded"
    /\ google' = TRUE
    /\ sdkIsLoaded' = TRUE
    /\ loads' = Settle(Injectors, IF servicesOk THEN "resolved" ELSE "rejected")
    /\ UNCHANGED <<clock, apiKey, tags, notLoader>>

\* script.onerror
ScriptOnError ==
    /\ tagState = "pending"
    /\ tagState' = "error"
    /\ loads' = Settle(Injectors, "rejected")
    /\ UNCHANGED <<clock, apiKey, google, sdkIsLoaded, tags, notLoader>>

\* the 15 s timer of the call that injected the script
LoadTimerFires ==
    /\ \E i \in Injectors : clock - loads[i].started = LoadTimeoutSeconds
    /\ loads' = Settle({i \in Injectors :
                          clock - loads[i].started = LoadTimeoutSeconds},
                       "rejected")
    /\ UNCHANGED <<clock, apiKey, google, sdkIsLoaded, tags, tagState,
                   notLoader>>

\* waitForGoogle, run every 100 ms by a call that found a script tag
WaitForGoogleSeesSdk ==
    /\ Pollers # {}
    /\ google
    /\ sdkIsLoaded' = TRUE
    /\ loads' = Settle(Pollers, "resolved")
    /\ UNCHANGED <<clock, apiKey, google, tags, tagState, notLoader>>

\* time passes; a due timer and a poll that would succeed come first
ClockTick ==
    /\ clock < MaxClock
    /\ \A i \in Injectors : clock - loads[i].started < LoadTimeoutSeconds
    /\ ~(google /\ Pollers # {})
    /\ clock' = clock + ClockStep
    /\ UNCHANGED <<apiKey, google, sdkIsLoaded, tags, tagState, loads,
                   notLoader>>

LoaderStart ==
    /\ clock = 0
    /\ apiKey \in BOOLEAN
    /\ google = FALSE
    /\ sdkIsLoaded = FALSE
    /\ tags = 0
    /\ tagState = "none"
    /\ loads = <<>>

LoaderInit ==
    /\ LoaderStart /\ TrafficIdle /\ SevIdle /\ RouteIdle
    /\ GeoIdle /\ SimIdle /\ PredIdle /\ AiIdle /\ PlacesIdle /\ RefreshIdle

LoaderNext ==
    \/ LoadGoogleMaps
    \/ \E servicesOk \in BOOLEAN : InitGoogleMaps(servicesOk)
    \/ ScriptOnError
    \/ LoadTimerFires
    \/ WaitForGoogleSeesSdk
    \/ ClockTick

SpecLoader == LoaderInit /\ [][LoaderNext]_vars

\* C13: however loadGoogleMaps calls interleave, at most one script tag is
\* ever injected, and a call made after a successful load returns at once
\* without injecting anything.
C13_AtMostOneScriptTag ==
    /\ tags <= 1
    /\ Cardinality({i \in 1..Len(loads) : loads[i].injected}) <= 1
    /\ \A i \in 1..Len(loads) :
          loads[i].tagWas = "loaded" =>
              loads[i].pc = "resolved" /\ ~loads[i].injected

\* a call during the pending load and a call after the load succeeded:
\* one tag, injected by the first call
C13_Witness ==
    /\ Len(loads) = 3
    /\ loads[1].injected
    /\ loads[2].tagWas = "pending" /\ ~loads[2].injected
    /\ loads[3].tagWas = "loaded" /\ loads[3].pc = "resolved"
    /\ tags = 1

\* C14: every loadGoogleMaps call settles: no call is still pending more
\* than 15 seconds after it started.
C14_EveryLoadSettlesIn15s ==
    \A i \in 1..Len(loads) :
        loads[i].pc \in {"own", "poll"} =>
            clock - loads[i].started <= LoadTimeoutSeconds

(***************************************************************************)
(* The useGeolocation hook.  requestLocation is memoised on                *)
(* isRequestingLocation and the mount effect depends on requestLocation,   *)
(* so every change of isRequestingLocation makes the effect run again.     *)
(***************************************************************************)
ExpiredFromBoundary(parsed, t) == t - parsed.timestamp >= LocationExpiryHours
\* now - parsed.timestamp > LOCATION_EXPIRY_MS
Expired(parsed, t) == t - parsed.timestamp > LocationExpiryHours

\* loadSavedLocation: what it returns and what it leaves in local storage
loadSavedLocation(item, t) ==
    IF item.kind = "absent" THEN [returned |-> NoEntry, after |-> item]
    ELSE IF item.kind = "garbage" THEN [returned |-> NoEntry, after |-> NoEntry]
    ELSE IF Expired(item, t) THEN [returned |-> NoEntry, after |-> NoEntry]
    ELSE [returned |-> item, after |-> item]

GeolocationErrors ==
    {"PERMISSION_DENIED", "POSITION_UNAVAILABLE", "TIMEOUT"}

GeolocationErrorMessage(code) ==
    CASE code = "PERMISSION_DENIED" -> "Location access denied by user."
      [] code = "POSITION_UNAVAILABLE" -> "Location information is unavailable."
      [] code = "TIMEOUT" -> "Location request timed out."
      [] OTHER -> "An unknown error occurred."

\* requestLocation as created by the current render; `byUser` tells whether
\* refreshLocation called it
requestLocation(byUser) ==
    IF isRequestingLocation
    THEN UNCHANGED <<isRequestingLocation, geoRequest, issued, autoRequests>>
    ELSE /\ issued < MaxGeoRequests
         /\ isRequestingLocation' = TRUE
         /\ geoRequest' = "pending"
         /\ issued' = issued + 1
         /\ autoRequests' = IF sinceFailure /\ ~byUser THEN autoRequests + 1
                            ELSE autoRequests

Mount ==
    /\ ~mounted
    /\ mounted' = TRUE
    /\ location' = None
    /\ error' = None
    /\ isRequestingLocation' = FALSE
    /\ effectPending' = TRUE
    /\ sinceFailure' = FALSE
    /\ UNCHANGED <<geoNow, storage, geoRequest, issued, autoRequests, lastLoad,
                   lastRefresh,
                   notGeo>>

\* the page is closed with no request pending
Unmount ==
    /\ mounted /\ geoRequest = "none" /\ ~effectPending
    /\ mounted' = FALSE
    /\ UNCHANGED <<geoNow, storage, location, error, isRequestingLocation,
                   effectPending, geoRequest, issued, sinceFailure, autoRequests,
                   lastLoad, lastRefresh,
                   notGeo>>

\* the effect of lines 198-236
RunEffect ==
    /\ mounted /\ effectPending
    /\ LET l == loadSavedLocation(storage, geoNow)
       IN  /\ storage' = l.after
           /\ IF l.returned.kind = "entry"
              THEN /\ location' = l.returned.location
                   /\ error' = None
                   /\ UNCHANGED <<isRequestingLocation, geoRequest, issued,
                                  autoRequests>>
              ELSE /\ requestLocation(FALSE)
                   /\ UNCHANGED <<location, error>>
           /\ lastLoad' = [entry |-> storage, at |-> geoNow,
                           returned |-> l.returned, after |-> l.after,
                           used |-> l.returned.kind = "entry", called |-> TRUE]
    /\ effectPending' = (isRequestingLocation' # isRequestingLocation)
    /\ UNCHANGED <<geoNow, mounted, sinceFailure, lastRefresh, notGeo>>

\* the user invokes refreshLocation
RefreshLocation ==
    /\ mounted /\ ~effectPending
    /\ storage' = NoEntry
    /\ requestLocation(TRUE)
    /\ sinceFailure' = FALSE
    /\ lastRefresh' = IF location # None /\ isRequestingLocation' /\ ~isRequestingLocation
                      THEN [state |-> "pending", held |-> location,
                            entry |-> storage]
                      ELSE NoRefresh
    /\ effectPending' = (isRequestingLocation' # isRequestingLocation)
    /\ UNCHANGED <<geoNow, mounted, location, error, lastLoad, notGeo>>

\* the success callback, reverse geocoding included
PositionSuccess(saveOk) ==
    /\ mounted /\ geoRequest = "pending" /\ ~effectPending
    /\ storage' = IF saveOk THEN SavedLocationData("fresh", geoNow) ELSE storage
    /\ location' = "fresh"
    /\ error' = None
    /\ isRequestingLocation' = FALSE
    /\ effectPending' = TRUE
    /\ geoRequest' = "none"
    /\ sinceFailure' = FALSE
    /\ lastRefresh' = NoRefresh
    /\ UNCHANGED <<geoNow, mounted, issued, autoRequests, lastLoad, notGeo>>

\* the error callback
PositionError(code) ==
    /\ mounted /\ geoRequest = "pending" /\ ~effectPending
    /\ location' = None
    /\ error' = GeolocationErrorMessage(code)
    /\ isRequestingLocation' = FALSE
    /\ effectPending' = TRUE
    /\ geoRequest' = "none"
    /\ sinceFailure' = TRUE
    /\ lastRefresh' = IF lastRefresh.state = "pending"
                      THEN [lastRefresh EXCEPT !.state = "failed"]
                      ELSE lastRefresh
    /\ UNCHANGED <<geoNow, storage, mounted, issued, autoRequests, lastLoad,
                   notGeo>>

\* Date.now() moves to the next instant around the expiry boundary
GeoInstants == {0, LocationExpiryHours, MaxGeoHours}

GeoTick ==
    /\ ~effectPending
    /\ \E t \in GeoInstants :
          /\ t > geoNow
          /\ \A u \in GeoInstants : u > geoNow => t <= u
          /\ geoNow' = t
    /\ UNCHANGED <<storage, mounted, location, error, isRequestingLocation,
                   effectPending, geoRequest, issued, sinceFailure, autoRequests,
                   lastLoad, lastRefresh,
                   notGeo>>

GeoStart ==
    /\ geoNow = 0
    /\ storage \in {NoEntry, Unparseable, SavedLocationData("saved", 0)}
    /\ mounted = FALSE
    /\ location = None
    /\ error = None
    /\ isRequestingLocation = FALSE
    /\ effectPending = FALSE
    /\ geoRequest = "none"
    /\ issued = 0
    /\ sinceFailure = FALSE
    /\ autoRequests = 0
    /\ lastLoad = NoLoad
    /\ lastRefresh = NoRefresh

GeoInit ==
    /\ GeoStart /\ TrafficIdle /\ SevIdle /\ RouteIdle
    /\ LoaderIdle /\ SimIdle /\ PredIdle /\ AiIdle /\ PlacesIdle /\ RefreshIdle

GeoNext ==
    \/ Mount
    \/ Unmount
    \/ RunEffect
    \/ RefreshLocation
    \/ \E saveOk \in BOOLEAN : PositionSuccess(saveOk)
    \/ \E code \in GeolocationErrors : PositionError(code)
    \/ GeoTick

SpecGeo == GeoInit /\ [][GeoNext]_vars

\* C15: after a geolocation request failed, the hook issues no further
\* getCurrentPosition request until the user invokes refreshLocation.
C15_NoRequestAfterFailureUntilRefresh ==
    autoRequests = 0

\* C30: when the request of a refreshLocation made with a location held
\* has failed, the hook's location and the stored entry are the ones held
\* before the refresh.
C30_FailedRefreshKeepsLocation ==
    lastRefresh.state = "failed" =>
        /\ location = lastRefresh.held
        /\ storage = lastRefresh.entry

\* C17: loadSavedLocation returns the stored entry iff it exists, parses and
\* is at most 24 hours old; an older or unparseable entry is removed and
\* null returned; an expired location is never taken as the location.
C17_SavedLocationValidFor24h ==
    lastLoad.called =>
        LET e == lastLoad.entry
            valid == e.kind = "entry"
                     /\ lastLoad.at - e.timestamp <= LocationExpiryHours
        IN  /\ lastLoad.returned.kind = "entry" <=> valid
            /\ valid => lastLoad.returned = e /\ lastLoad.after = e
            /\ ~valid => lastLoad.returned = NoEntry /\ lastLoad.after = NoEntry
            /\ lastLoad.used => valid

\* an entry exactly 24 hours old is returned and used
C17_Witness ==
    /\ lastLoad.called
    /\ lastLoad.entry.kind = "entry"
    /\ lastLoad.at - lastLoad.entry.timestamp = LocationExpiryHours
    /\ lastLoad.used
    /\ location = lastLoad.entry.location

(***************************************************************************)
(* generateLocationAwareSimulation for every hour of the day.  A value of  *)
(* Math.random() is given in thousandths, 0..999.                          *)
(***************************************************************************)
RandomForSeverity == {0, 300, 301, 500, 501, 700, 701, 999}
RandomForSpeed == {0, 500, 999}
RandomForCount == {0, 333, 334, 666, 667, 999}

\* Math.floor(Math.random() * n)
RandomFloor(r, n) == (r * n) \div 1000

SimSeverity(currentHour, r) ==
    IF currentHour >= 7 /\ currentHour <= 9
    THEN IF r > 500 THEN "high" ELSE "moderate"
    ELSE IF currentHour >= 17 /\ currentHour <= 19
    THEN IF r > 300 THEN "high" ELSE "severe"
    ELSE IF currentHour >= 22 \/ currentHour <= 5
    THEN "low"
    ELSE IF r > 700 THEN "moderate" ELSE "low"

SimSpeedOfRegularHours(currentHour, r) == RandomFloor(r, 25) + 30
SimSpeed(currentHour, r) ==
    IF currentHour >= 7 /\ currentHour <= 9 THEN RandomFloor(r, 20) + 15
    ELSE IF currentHour >= 17 /\ currentHour <= 19 THEN RandomFloor(r, 15) + 10
    ELSE IF currentHour >= 22 \/ currentHour <= 5 THEN RandomFloor(r, 20) + 45
    ELSE RandomFloor(r, 25) + 30

SimulatedCondition(currentHour, i, rSeverity, rSpeed) ==
    [id |-> [prefix |-> SimPrefix, t |-> 0, i |-> i],
     severity |-> SimSeverity(currentHour, rSeverity),
     speed |-> SimSpeed(currentHour, rSpeed),
     confidence |-> SimConfidence]

\* const numConditions = Math.floor(Math.random() * 3) + 2
SimDrawCount(r) ==
    /\ simPc = "draw"
    /\ simCount' = RandomFloor(r, 3) + 2
    /\ simPc' = "loop"
    /\ UNCHANGED <<simHour, simConditions, simResult, notSim>>

SimPush(rSeverity, rSpeed) ==
    /\ simPc = "loop"
    /\ Len(simConditions) < simCount
    /\ simConditions' =
          Append(simConditions,
                 SimulatedCondition(simHour, Len(simConditions), rSeverity,
                                    rSpeed))
    /\ UNCHANGED <<simHour, simPc, simCount, simResult, notSim>>

SimReturn ==
    /\ simPc = "loop"
    /\ Len(simConditions) = simCount
    /\ simResult' = simConditions
    /\ simPc' = "returned"
    /\ UNCHANGED <<simHour, simCount, simConditions, notSim>>

\* catch (error) { return [] }
SimFails ==
    /\ simPc \in {"draw", "loop"}
    /\ simResult' = <<>>
    /\ simPc' = "failed"
    /\ UNCHANGED <<simHour, simCount, simConditions, notSim>>

SimStart ==
    /\ simHour \in 0..23
    /\ simPc = "draw"
    /\ simCount = 0
    /\ simConditions = <<>>
    /\ simResult = <<>>

SimInit ==
    /\ SimStart /\ TrafficIdle /\ SevIdle /\ RouteIdle
    /\ LoaderIdle /\ GeoIdle /\ PredIdle /\ AiIdle /\ PlacesIdle /\ RefreshIdle

SimNext ==
    \/ \E r \in RandomForCount : SimDrawCount(r)
    \/ \E rSeverity \in RandomForSeverity, rSpeed \in RandomForSpeed :
          SimPush(rSeverity, rSpeed)
    \/ SimReturn
    \/ SimFails

SpecSimulation == SimInit /\ [][SimNext]_vars

\* C16: by hour band every simulated condition has the stated severities
\* and speed range; the simulation returns 2 to 4 conditions with id prefix
\* 'simulation-' and confidence 70, or the empty list on internal failure.
C16_SimulationBandsByHour ==
    /\ \A k \in 1..Len(simConditions) :
          LET c == simConditions[k]
              h == simHour
          IN  /\ (7 <= h /\ h <= 9) =>
                    c.severity \in {"moderate", "high"}
                    /\ 15 <= c.speed /\ c.speed <= 35
              /\ (17 <= h /\ h <= 19) =>
                    c.severity \in {"high", "severe"}
                    /\ 10 <= c.speed /\ c.speed <= 25
              /\ (h >= 22 \/ h <= 5) =>
                    c.severity = "low" /\ 45 <= c.speed /\ c.speed <= 65
              /\ (h \in {6} \cup 10..16 \cup 20..21) =>
                    c.severity \in {"low", "moderate"}
                    /\ 30 <= c.speed /\ c.speed <= 55
              /\ StartsWith(c.id, SimPrefix)
              /\ c.confidence = 70
    /\ simPc = "returned" =>
          simResult = simConditions /\ Len(simResult) \in 2..4
    /\ simPc = "failed" => simResult = <<>>
    /\ simPc \in {"draw", "loop", "returned", "failed"}

\* hour 8, four conditions returned, both severities of the morning band
C16_Witness ==
    /\ simPc = "returned"
    /\ simHour = 8
    /\ Len(simResult) = 4
    /\ simResult[1].severity = "high" /\ simResult[2].severity = "moderate"
    /\ simResult[1].speed = 15 /\ simResult[2].speed = 34

(***************************************************************************)
(* generateRealTimePredictions.  Factors are kept in hundredths.  The      *)
(* product base * factor is a double: 0.7 is stored as                     *)
(* 0.6999999999999999556, so 45 * 0.7 = 31.499999999999996 and             *)
(* 85 * 0.7 = 59.49999999999999; for every other base in 0..100 and every  *)
(* factor of the table the double rounds as the exact product does.        *)
(***************************************************************************)
Severities == <<"low", "moderate", "high", "severe">>

SeverityValue(severity) ==
    CASE severity = "low" -> 25
      [] severity = "moderate" -> 50
      [] severity = "high" -> 75
      [] severity = "severe" -> 90

RECURSIVE SumSeverity(_)
SumSeverity(conditions) ==
    IF conditions = <<>> THEN 0
    ELSE SeverityValue(Head(conditions)) + SumSeverity(Tail(conditions))

calculateCurrentCongestionLevel(conditions) ==
    IF Len(conditions) = 0 THEN 20
    ELSE RoundDiv(SumSeverity(conditions), Len(conditions))

\* trafficPatterns, in hundredths, for hours 0..23
getHourlyTrafficFactor(hour) ==
    <<20, 15, 10, 10, 15, 30, 60, 90, 120, 80, 60, 70,
      80, 70, 60, 70, 90, 130, 110, 80, 60, 50, 40, 30>>[hour + 1]

ProductBelowHalf == {<<45, 70>>, <<85, 70>>}

\* Math.round(baseCongestion * hourlyFactor)
RoundProduct(base, factor) ==
    IF <<base, factor>> \in ProductBelowHalf THEN (base * factor) \div 100
    ELSE RoundDiv(base * factor, 100)

formatHour(hour) ==
    [displayHour |-> IF hour = 0 THEN 12
                     ELSE IF hour > 12 THEN hour - 12 ELSE hour,
     period |-> IF hour >= 12 THEN "PM" ELSE "AM"]

Prediction(currentHour, i, conditions) ==
    LET hour == (currentHour + i) % 24
        baseCongestion == calculateCurrentCongestionLevel(conditions)
        hourlyFactor == getHourlyTrafficFactor(hour)
        congestionLevel == RoundProduct(baseCongestion, hourlyFactor)
    IN  [time |-> formatHour(hour),
         congestionLevel |-> Min(100, Max(0, congestionLevel)),
         confidence |-> Max(60, 95 - (i * 3))]

\* one iteration of for (let i = 0; i < 12; i++)
PredictNext ==
    /\ Len(predictions) < 12
    /\ predictions' =
          Append(predictions,
                 Prediction(predHour, Len(predictions), predConditions))
    /\ UNCHANGED <<predHour, predConditions, notPred>>

PredStart ==
    /\ predHour \in 0..23
    /\ predConditions \in
          UNION {[1..n -> {Severities[k] : k \in 1..4}] :
                    n \in 0..MaxPredConditions}
    /\ predictions = <<>>

PredInit ==
    /\ PredStart /\ TrafficIdle /\ SevIdle /\ RouteIdle
    /\ LoaderIdle /\ GeoIdle /\ SimIdle /\ AiIdle /\ PlacesIdle /\ RefreshIdle

PredNext == PredictNext

SpecPredictions == PredInit /\ [][PredNext]_vars

\* the hour a formatted time stands for
HourOf(time) ==
    IF time.period = "AM"
    THEN (IF time.displayHour = 12 THEN 0 ELSE time.displayHour)
    ELSE (IF time.displayHour = 12 THEN 12 ELSE time.displayHour + 12)

\* C18: 12 entries for the hours (h+i) mod 24; entry i has congestionLevel
\* round(base x factor) clamped to [0,100], base the rounded mean of the
\* severity values (20 when there are no conditions), and confidence
\* max(60, 95 - 3i).
C18_TwelveHourlyPredictions ==
    /\ Len(predictions) <= 12
    /\ \A k \in 1..Len(predictions) :
          LET i == k - 1
              hour == (predHour + i) % 24
              base == IF predConditions = <<>> THEN 20
                      ELSE (2 * SumSeverity(predConditions)
                            + Len(predConditions))
                           \div (2 * Len(predConditions))
              exact == (2 * base * getHourlyTrafficFactor(hour) + 100)
                       \div 200
          IN  /\ HourOf(predictions[k].time) = hour
              /\ predictions[k].congestionLevel =
                    (IF exact > 100 THEN 100 ELSE IF exact < 0 THEN 0 ELSE exact)
              /\ predictions[k].confidence =
                    (IF 95 - 3 * i > 60 THEN 95 - 3 * i ELSE 60)

(***************************************************************************)
(* TogetherAIService.analyzeTrafficConditions.  A JSON value of a numeric  *)
(* field is absent, a number, or a string that is no number; confidence is *)
(* kept in hundredths.                                                     *)
(***************************************************************************)
Absent == [t |-> "absent", v |-> 0]
Num(n) == [t |-> "num", v |-> n]
Str == [t |-> "str", v |-> 0]
NaN == [t |-> "NaN", v |-> 0]

\* x || d
OrDefault(x, d) ==
    IF x.t = "absent" \/ (x.t = "num" /\ x.v = 0) THEN Num(d) ELSE x

\* Math.min(Math.max(x, lo), hi)
Clamp(x, lo, hi) ==
    IF x.t = "num" THEN Num(Min(Max(x.v, lo), hi)) ELSE NaN

validateAndFormatResponse(analysis) ==
    [from |-> "model",
     severity |-> IF analysis.severity = "" THEN "moderate"
                  ELSE analysis.severity,
     confidence |-> Clamp(OrDefault(analysis.confidence, 70), 0, 100),
     predictedCongestion |->
         Clamp(OrDefault(analysis.predictedCongestion, 50), 0, 100),
     estimatedDelay |-> Clamp(OrDefault(analysis.estimatedDelay, 0), 0, 60)]

getFallbackAnalysis ==
    [from |-> "fallback",
     severity |-> "moderate",
     confidence |-> Num(60),
     predictedCongestion |-> Num(45),
     estimatedDelay |-> Num(5)]

ResponseOkBelow500(status) == status < 500
\* response.ok
ResponseOk(status) == status \in 200..299

analyzeTrafficConditions(reply) ==
    IF reply.net # "ok" THEN getFallbackAnalysis
    ELSE IF ~ResponseOk(reply.status) THEN getFallbackAnalysis
    ELSE IF reply.body.kind = "unparseable" THEN getFallbackAnalysis
    ELSE IF reply.body.kind \in {"nochoices", "emptycontent"}
    THEN getFallbackAnalysis
    ELSE IF reply.body.kind \in {"badjson", "jsonnull"} THEN getFallbackAnalysis
    ELSE validateAndFormatResponse(reply.body.analysis)

\* the objects the model may return as message content
SeverityTexts == {"", "low", "moderate", "high", "severe", "critical"}
ConfidenceValues == {Absent, Str, Num(0), Num(50), Num(100), Num(150), Num(0 - 50)}
CongestionValues == {Absent, Str, Num(0), Num(30), Num(100), Num(150), Num(0 - 5)}
DelayValues == {Absent, Str, Num(0), Num(5), Num(60), Num(90), Num(0 - 5)}

Analyses ==
    [severity : SeverityTexts, confidence : ConfidenceValues,
     predictedCongestion : CongestionValues, estimatedDelay : DelayValues]

EmptyAnalysis ==
    [severity |-> "", confidence |-> Absent, predictedCongestion |-> Absent,
     estimatedDelay |-> Absent]

Bodies ==
    {[kind |-> k, analysis |-> EmptyAnalysis] :
        k \in {"unparseable", "nochoices", "emptycontent", "badjson",
               "jsonnull"}}
    \cup {[kind |-> "object", analysis |-> a] : a \in Analyses}

Replies ==
    {[net |-> n, status |-> 0, body |-> [kind |-> "unparseable",
                                         analysis |-> EmptyAnalysis]] :
        n \in {"failed", "nokey"}}
    \cup {[net |-> "ok", status |-> st, body |-> b] :
             st \in {200, 404, 500}, b \in Bodies}

AnalyzeTrafficConditions ==
    /\ aiPc \in {"idle", "done"}
    /\ aiPc' = "fetching"
    /\ aiReply' = NoReply
    /\ aiInsight' = NoInsight
    /\ UNCHANGED notAi

CompletionSettles(reply) ==
    /\ aiPc = "fetching"
    /\ aiReply' = reply
    /\ aiInsight' = analyzeTrafficConditions(reply)
    /\ aiPc' = "done"
    /\ UNCHANGED notAi

AiInit ==
    /\ AiIdle /\ TrafficIdle /\ SevIdle /\ RouteIdle
    /\ LoaderIdle /\ GeoIdle /\ SimIdle /\ PredIdle /\ PlacesIdle /\ RefreshIdle

AiNext ==
    \/ AnalyzeTrafficConditions
    \/ \E reply \in Replies : CompletionSettles(reply)

SpecInsight == AiInit /\ [][AiNext]_vars

\* C19: analyzeTrafficConditions never throws; on a non-2xx response, a
\* missing message content or a body that does not parse as JSON it returns
\* the fixed fallback insight (moderate, 0.6, 45, 5).
C19_FallbackOnFailure ==
    /\ aiPc \in {"idle", "fetching", "done"}
    /\ (aiPc = "done"
        /\ (\/ aiReply.net # "ok"
            \/ aiReply.status < 200 \/ aiReply.status > 299
            \/ aiReply.body.kind \in {"unparseable", "nochoices",
                                      "emptycontent", "badjson"})) =>
          /\ aiInsight.severity = "moderate"
          /\ aiInsight.confidence = Num(60)
          /\ aiInsight.predictedCongestion = Num(45)
          /\ aiInsight.estimatedDelay = Num(5)

\* a 404 answer carrying a well-formed analysis still gives the fallback
C19_Witness ==
    /\ aiPc = "done"
    /\ aiReply.net = "ok" /\ aiReply.status = 404
    /\ aiReply.body.kind = "object"
    /\ aiReply.body.analysis.severity = "severe"
    /\ aiInsight = getFallbackAnalysis

\* C20: every insight returned has severity among the four levels,
\* confidence in [0,1], predictedCongestion in [0,100] and estimatedDelay
\* in [0,60].
C20_InsightWithinRanges ==
    aiPc = "done" =>
        /\ aiInsight.severity \in {"low", "moderate", "high", "severe"}
        /\ aiInsight.confidence.t = "num"
        /\ 0 <= aiInsight.confidence.v /\ aiInsight.confidence.v <= 100
        /\ aiInsight.predictedCongestion.t = "num"
        /\ 0 <= aiInsight.predictedCongestion.v
        /\ aiInsight.predictedCongestion.v <= 100
        /\ aiInsight.estimatedDelay.t = "num"
        /\ 0 <= aiInsight.estimatedDelay.v /\ aiInsight.estimatedDelay.v <= 60

(***************************************************************************)
(* TrafficService.findNearbyPlaces, one category search at a time.  A      *)
(* place is its place_id and its great-circle distance from the center.    *)
(***************************************************************************)
PlaceAt(n, distance) == [place_id |-> n, distance |-> distance]

\* the radius getCurrentTrafficConditions passes on: 10 from the traffic
\* list, 5 from the predictions
Radii == {5, 10}

\* what one searchPlaces call may answer
NearAnswers ==
    { SearchFailed,
      Found(<<>>),
      Found(<<PlaceAt(1, 3), PlaceAt(2, 12)>>),
      Found(<<PlaceAt(1, 3), PlaceAt(3, 10), PlaceAt(3, 10)>>),
      Found(<<PlaceAt(4, 4), PlaceAt(5, 4), PlaceAt(6, 4), PlaceAt(7, 5),
              PlaceAt(8, 2)>>),
      Found(<<PlaceAt(9, 7), PlaceAt(10, 1), PlaceAt(11, 1), PlaceAt(12, 1),
              PlaceAt(13, 1), PlaceAt(14, 1)>>) }

\* places.filter(distance <= radius) is what CollectPlaces reads as within
Measured(answer, radius) ==
    [answer EXCEPT !.places =
        [i \in 1..Len(@) |->
            [place_id |-> @[i].place_id, distance |-> @[i].distance,
             within |-> @[i].distance <= radius]]]

FindNearbyPlaces(radius) ==
    /\ nearPc \in {"idle", "done"}
    /\ nearPc' = "searching"
    /\ nearRadius' = radius
    /\ nearQuery' = 1
    /\ nearAll' = <<>>
    /\ searched' = <<>>
    /\ nearbyResult' = <<>>
    /\ UNCHANGED notPlaces

FailedSearchEndsLoop(answer) ==
    /\ nearPc = "searching"
    /\ LET pushed == CollectPlaces(<<Measured(answer, nearRadius)>>, nearAll)
           leaves == \/ ~answer.ok
                     \/ Len(pushed) >= EnoughPlaces
                     \/ nearQuery = SearchQueries
       IN  /\ nearAll' = pushed
           /\ searched' = Append(searched, IF answer.ok THEN "ok" ELSE "failed")
           /\ IF leaves
              THEN /\ nearPc' = "done"
                   /\ nearbyResult' = Limit(UniquePlaces(pushed, 1),
                                            MaxUniquePlaces)
                   /\ UNCHANGED nearQuery
              ELSE /\ nearQuery' = nearQuery + 1
                   /\ UNCHANGED <<nearPc, nearbyResult>>
    /\ UNCHANGED <<nearRadius, notPlaces>>
\* one pass of the for loop: the awaited searchPlaces settles; after the last
\* query or the break the duplicates are removed and the list is returned
SearchPlacesSettles(answer) ==
    /\ nearPc = "searching"
    /\ LET pushed == CollectPlaces(<<Measured(answer, nearRadius)>>, nearAll)
           leaves == \/ answer.ok /\ Len(pushed) >= EnoughPlaces
                     \/ nearQuery = SearchQueries
       IN  /\ nearAll' = pushed
           /\ searched' = Append(searched, IF answer.ok THEN "ok" ELSE "failed")
           /\ IF leaves
              THEN /\ nearPc' = "done"
                   /\ nearbyResult' = Limit(UniquePlaces(pushed, 1),
                                            MaxUniquePlaces)
                   /\ UNCHANGED nearQuery
              ELSE /\ nearQuery' = nearQuery + 1
                   /\ UNCHANGED <<nearPc, nearbyResult>>
    /\ UNCHANGED <<nearRadius, notPlaces>>

PlacesInit ==
    /\ PlacesIdle
    /\ TrafficIdle /\ SevIdle /\ RouteIdle
    /\ LoaderIdle /\ GeoIdle /\ SimIdle /\ PredIdle /\ AiIdle /\ RefreshIdle

PlacesNext ==
    \/ \E radius \in Radii : FindNearbyPlaces(radius)
    \/ \E answer \in NearAnswers : SearchPlacesSettles(answer)

SpecPlaces == PlacesInit /\ [][PlacesNext]_vars

\* C23: the returned candidates have pairwise different place_ids, are at
\* most 8, and all lie within the radius; a failed category search is
\* followed by the next category's search.
C23_CandidatesUniqueCappedNearby ==
    /\ nearPc = "done" =>
          /\ \A i, j \in 1..Len(nearbyResult) :
                nearbyResult[i].place_id = nearbyResult[j].place_id => i = j
          /\ Len(nearbyResult) <= 8
          /\ \A i \in 1..Len(nearbyResult) :
                nearbyResult[i].distance <= nearRadius
          /\ \A k \in 1..Len(searched) :
                (searched[k] = "failed" /\ k < SearchQueries) => Len(searched) > k
    /\ nearPc = "searching" => Len(searched) = nearQuery - 1

\* a failed first search, then eleven places of which one is too far and
\* two are doubles: eight are returned
C23_Witness ==
    /\ nearPc = "done"
    /\ nearRadius = 5
    /\ searched[1] = "failed"
    /\ Len(searched) = 5
    /\ Len(nearAll) > 10
    /\ Len(nearbyResult) = 8
    /\ \E i \in 1..Len(nearAll) : \E j \in 1..(i - 1) :
          nearAll[i].place_id = nearAll[j].place_id

(***************************************************************************)
(* The polling components: the useTrafficData hook and PredictionChart.    *)
(* Both run the same effect (an initial fetch and an interval timer that   *)
(* the cleanup clears) around a fetch function that sets its flag, awaits  *)
(* the service and sets the state.  Time is in minutes.                    *)
(***************************************************************************)
Components == {"useTrafficData", "PredictionChart"}

Period(c) ==
    IF c = "useTrafficData" THEN RefreshMinutes ELSE ChartRefreshMinutes

UserLocations == {None, "A", "B"}

NoTrafficDataMessage ==
    "No traffic data available for your area. This could mean light traffic conditions."
NoRealPredictionMessage ==
    "No real traffic prediction data available. Predictions require actual traffic conditions from your area."

\* what getCurrentTrafficConditions resolves with: live or cached real
\* conditions, the simulation's conditions, or nothing
ConditionAnswers ==
    { [source |-> "real", conditions |-> <<"high">>, hour |-> 8],
      [source |-> "sim", conditions |-> <<"low", "moderate">>, hour |-> 17],
      [source |-> "empty", conditions |-> <<>>, hour |-> 3] }

\* accuracy 85 + Math.random() * 10, to the whole number below it
generateRealTimePredictions(currentHour, currentConditions, r) ==
    [predictions |->
        [i \in 1..12 |-> Prediction(currentHour, i - 1, currentConditions)],
     accuracy |-> 85 + r]

getTrafficPredictions(answer, r) ==
    generateRealTimePredictions(answer.hour, answer.conditions, r)

\* PredictionChart.fetchPredictions: 'Only use predictions if they have real
\* data'
UsesForecast(answer, predictionData) ==
    /\ Len(predictionData.predictions) > 0
    /\ predictionData.accuracy > 0

\* the state a settled fetch sets, before its finally block
Settled(c, f, answer, r) ==
    IF c = "useTrafficData"
    THEN [shown |-> [by |-> f.n, loc |-> f.loc, source |-> answer.source,
                     content |-> IF answer.conditions = <<>> THEN "empty"
                                 ELSE "list"],
          error |-> IF answer.conditions = <<>> THEN NoTrafficDataMessage
                    ELSE hookError]
    ELSE LET predictionData == getTrafficPredictions(answer, r)
         IN  IF UsesForecast(answer, predictionData)
             THEN [shown |-> [by |-> f.n, loc |-> f.loc,
                              source |-> answer.source,
                              content |-> "predictions"],
                   error |-> hookError]
             ELSE [shown |-> [by |-> f.n, loc |-> f.loc,
                              source |-> answer.source, content |-> "null"],
                   error |-> NoRealPredictionMessage]

\* fetchTrafficData(isManualRefresh) / fetchPredictions(isManualRefresh) up
\* to its await, called from a render whose userLocation is loc
StartFetch(loc, manual, timerId) ==
    IF loc = None
    THEN /\ shown' = [by |-> 0, loc |-> None, source |-> None,
                      content |-> IF component = "useTrafficData"
                                  THEN "empty" ELSE "null"]
         /\ UNCHANGED <<fetches, started, isLoading, isAutoRefreshing,
                        hookError>>
    ELSE /\ started < MaxFetches
         /\ started' = started + 1
         /\ fetches' = fetches \cup {[n |-> started + 1, loc |-> loc,
                                      manual |-> manual, timer |-> timerId]}
         /\ isLoading' = (manual \/ isLoading)
         /\ isAutoRefreshing' = (~manual \/ isAutoRefreshing)
         /\ hookError' = None
         /\ UNCHANGED shown

KeepsInterval(ts, id) == ts
\* clearInterval(interval)
clearInterval(ts, id) == {t \in ts : t.id # id}

\* setInterval(() => fetch(false), period) in a render whose location is loc
setInterval(ts, id, loc) ==
    ts \cup {[id |-> id, loc |-> loc, due |-> hookNow + Period(component)]}

\* the component mounts: the effect runs for the first time
MountComponent(loc) ==
    /\ hookPhase = "initial"
    /\ hookPhase' = "mounted"
    /\ userLocation' = loc
    /\ StartFetch(loc, TRUE, 0)
    /\ interval' = 1
    /\ timers' = setInterval(timers, 1, loc)
    /\ UNCHANGED <<component, hookNow, cleared, lateCalls, notRefresh>>

\* userLocation changes: the cleanup of the last effect, then the effect
LocationChanges(loc) ==
    /\ hookPhase = "mounted"
    /\ loc # userLocation
    /\ Cardinality(cleared) < MaxLocationChanges
    /\ userLocation' = loc
    /\ cleared' = cleared \cup {interval}
    /\ StartFetch(loc, TRUE, 0)
    /\ interval' = interval + 1
    /\ timers' = setInterval(clearInterval(timers, interval), interval + 1, loc)
    /\ UNCHANGED <<component, hookNow, hookPhase, lateCalls, notRefresh>>

\* the component is torn down: the cleanup of the last effect
UnmountComponent ==
    /\ hookPhase = "mounted"
    /\ hookPhase' = "torn"
    /\ cleared' = cleared \cup {interval}
    /\ timers' = clearInterval(timers, interval)
    /\ UNCHANGED <<component, hookNow, userLocation, interval, fetches,
                   started, shown, isLoading, isAutoRefreshing, hookError,
                   lateCalls, notRefresh>>

\* an interval timer is due: its callback calls the fetch of its render
IntervalFires ==
    /\ \E t \in timers :
          /\ t.due = hookNow
          /\ StartFetch(t.loc, FALSE, t.id)
          /\ timers' = (timers \ {t})
                          \cup {[t EXCEPT !.due = @ + Period(component)]}
          /\ lateCalls' = IF t.id \in cleared THEN lateCalls + 1
                          ELSE lateCalls
    /\ UNCHANGED <<component, hookNow, hookPhase, userLocation, interval,
                   cleared, notRefresh>>

\* refreshTrafficData() / refreshPredictions()
ManualRefresh ==
    /\ hookPhase = "mounted"
    /\ userLocation # None
    /\ StartFetch(userLocation, TRUE, 0)
    /\ UNCHANGED <<component, hookNow, hookPhase, userLocation, interval,
                   timers, cleared, lateCalls, notRefresh>>

\* the awaited service call of fetch f resolves: the state is set and the
\* finally block drops the flag of f
FetchCompletes(f, answer, r) ==
    /\ f \in fetches
    /\ fetches' = fetches \ {f}
    /\ IF hookPhase = "mounted"
       THEN /\ shown' = Settled(component, f, answer, r).shown
            /\ hookError' = Settled(component, f, answer, r).error
            /\ isLoading' = IF f.manual THEN FALSE ELSE isLoading
            /\ isAutoRefreshing' = IF f.manual THEN isAutoRefreshing ELSE FALSE
       ELSE UNCHANGED <<shown, hookError, isLoading, isAutoRefreshing>>
    /\ UNCHANGED <<component, hookNow, hookPhase, userLocation, interval,
                   timers, cleared, started, lateCalls, notRefresh>>

\* time passes once every timer that is due has fired
HookTick ==
    /\ hookPhase # "initial"
    /\ hookNow < MaxHookMinutes
    /\ \A t \in timers : t.due > hookNow
    /\ hookNow' = hookNow + RefreshMinutes
    /\ UNCHANGED <<component, hookPhase, userLocation, interval, timers,
                   cleared, fetches, started, shown, isLoading,
                   isAutoRefreshing, hookError, lateCalls, notRefresh>>

RefreshStart ==
    /\ component \in Components
    /\ hookNow = 0
    /\ hookPhase = "initial"
    /\ userLocation = None
    /\ interval = 0
    /\ timers = {}
    /\ cleared = {}
    /\ fetches = {}
    /\ started = 0
    /\ shown = NothingShown
    /\ isLoading = FALSE
    /\ isAutoRefreshing = FALSE
    /\ hookError = None
    /\ lateCalls = 0

RefreshInit ==
    /\ RefreshStart
    /\ TrafficIdle /\ SevIdle /\ RouteIdle
    /\ LoaderIdle /\ GeoIdle /\ SimIdle /\ PredIdle /\ AiIdle /\ PlacesIdle

RefreshNext ==
    \/ \E loc \in UserLocations : MountComponent(loc)
    \/ \E loc \in UserLocations : LocationChanges(loc)
    \/ UnmountComponent
    \/ IntervalFires
    \/ ManualRefresh
    \/ \E f \in fetches, answer \in ConditionAnswers, r \in {0, 9} :
          FetchCompletes(f, answer, r)
    \/ HookTick

SpecRefresh == RefreshInit /\ [][RefreshNext]_vars

\* C24: a timer whose cleanup has run (teardown or location change) is gone
\* and calls no further fetch, in the hook (5 minutes) and in the chart (10).
C24_ClearedTimerStartsNoFetch ==
    /\ lateCalls = 0
    /\ \A t \in timers : t.id \notin cleared
    /\ hookPhase = "torn" => timers = {}
    /\ \A t \in timers : t.due <= hookNow + Period(component)

\* the location changed at minute 0, the first timer's period has passed,
\* and the fetch the second timer started is in flight
C24_Witness ==
    /\ component = "PredictionChart"
    /\ cleared = {1}
    /\ hookNow >= ChartRefreshMinutes
    /\ lateCalls = 0
    /\ \E f \in fetches : f.timer = 2

\* C25: conditions that are empty or simulated leave the chart without
\* predictions and with the 'No real traffic prediction data' error.
C25_ChartNeedsRealData ==
    (component = "PredictionChart" /\ shown.source \in {"empty", "sim"}) =>
        /\ shown.content = "null"
        /\ hookError = NoRealPredictionMessage

\* C27: with no fetch in flight the data shown comes from a fetch for the
\* current userLocation.
C27_ShownDataIsForCurrentLocation ==
    (component = "useTrafficData" /\ hookPhase = "mounted" /\ fetches = {}) =>
        shown.loc = userLocation

\* C28: isLoading while a manual or initial fetch is in flight,
\* isAutoRefreshing while a timer's fetch is in flight, both false when none.
C28_FlagsFollowFetchesInFlight ==
    (component = "useTrafficData" /\ hookPhase = "mounted") =>
        /\ (\E f \in fetches : f.manual) => isLoading
        /\ (\E f \in fetches : ~f.manual) => isAutoRefreshing
        /\ fetches = {} => (~isLoading /\ ~isAutoRefreshing)

====
